---- MODULE Spec2Model ----
(***************************************************************************)
(* Verification model of the NS-Profile-Tuner analysis engine.            *)
(*                                                                         *)
(* Conventions                                                             *)
(*   - JavaScript numbers are exact rationals <<n, d>> (d > 0) while a     *)
(*     computation is in flight; a value the code rounds is stored as the  *)
(*     scaled integer the rounding produces.                               *)
(*   - ISF values (currentISF, suggestedISF, slot.value of a sensitivity   *)
(*     slot) are in tenths of mg/dL per U; ICR values in hundredths of     *)
(*     g/U; insulin in tenths of U; confidence, successRate and           *)
(*     avgEfficiency in hundredths.                                        *)
(*   - A time of day "HH:MM" is the pair [h |-> HH, m |-> MM] that         *)
(*     split(":").map(Number) yields; an instant is a number of minutes.   *)
(*   - Null (the empty tuple) stands for a null / undefined rational or    *)
(*     object; a glucose reading that was not found is NoReading.          *)
(***************************************************************************)
EXTENDS Integers, Sequences, FiniteSets, TLC

Null == <<>>

\* findNearestGlucose / findGlucoseAt return a truthy sgv or null
NoReading == 0

(***************************************************************************)
(* Arithmetic helpers                                                      *)
(***************************************************************************)
Abs(x) == IF x < 0 THEN -x ELSE x

Max(a, b) == IF a >= b THEN a ELSE b

Min(a, b) == IF a <= b THEN a ELSE b

RECURSIVE GCD(_, _)
GCD(a, b) == IF b = 0 THEN a ELSE GCD(b, a % b)

\* The rational n/d in lowest terms, d > 0.
Rat(n, d) ==
  LET g == GCD(Abs(n), d)
  IN  IF g = 0 THEN <<0, 1>> ELSE <<n \div g, d \div g>>

RInt(i) == <<i, 1>>

RAdd(a, b) ==
  LET g == GCD(a[2], b[2])
  IN  Rat(a[1] * (b[2] \div g) + b[1] * (a[2] \div g), (a[2] \div g) * b[2])

RNeg(a) == <<-a[1], a[2]>>

RSub(a, b) == RAdd(a, RNeg(b))

RMul(a, b) == Rat(a[1] * b[1], a[2] * b[2])

\* a / b for b > 0
RDiv(a, b) == Rat(a[1] * b[2], a[2] * b[1])

RLt(a, b) == a[1] * b[2] < b[1] * a[2]

RLe(a, b) == a[1] * b[2] <= b[1] * a[2]

RMax(a, b) == IF RLt(a, b) THEN b ELSE a

RMin(a, b) == IF RLt(b, a) THEN b ELSE a

RAbs(a) == <<Abs(a[1]), a[2]>>

\* Math.round: the nearest integer, halves towards +Infinity.
MathRoundFloor(r) == r[1] \div r[2]

MathRound(r) == (2 * r[1] + r[2]) \div (2 * r[2])

RECURSIVE SumSeq(_)
SumSeq(s) == IF s = <<>> THEN 0 ELSE Head(s) + SumSeq(Tail(s))

RECURSIVE RSumSeq(_)
RSumSeq(s) == IF s = <<>> THEN RInt(0) ELSE RAdd(Head(s), RSumSeq(Tail(s)))

RECURSIVE ConcatAll(_)
ConcatAll(ss) == IF ss = <<>> THEN <<>> ELSE Head(ss) \o ConcatAll(Tail(ss))

\* Array.prototype.map, in index order (filter is SelectSeq).
MapSeq(s, F(_)) == [i \in 1..Len(s) |-> F(s[i])]

Hours == 0..23

Time(h, m) == [h |-> h, m |-> m]

\* (pHour > slotHour || (pHour === slotHour && pMin >= slotMin))
TimeGe(p, s) == p.h > s.h \/ (p.h = s.h /\ p.m >= s.m)

\* (pHour < nextSlotHour || (pHour === nextSlotHour && pMin < nextSlotMin))
TimeLt(p, s) == p.h < s.h \/ (p.h = s.h /\ p.m < s.m)

(***************************************************************************)
(* Correction / ISF analyzer                                               *)
(*                                                                         *)
(* A treatment is [eventType, t, insulin, carbs, rate, duration, pre, g2h,  *)
(* g3h]: t its instant in minutes, rate in hundredths of U/h, duration in  *)
(* minutes, and pre / g2h / g3h the readings findNearestGlucose returns    *)
(* for the windows [-30, 0], [110, 130] and [170, 190] around t (Null when *)
(* the window holds no reading).                                           *)
(***************************************************************************)
\* Date.getHours / getMinutes of an instant
HourOf(t) == (t % 1440) \div 60

MinuteOfInstant(t) == t % 60

\* parseInt(time.split(":")[0])
SlotHour(slot) == slot.time.h

RECURSIVE FillISFMap(_, _)
FillISFMap(map, slots) ==
  IF slots = <<>> THEN map
  ELSE FillISFMap([h \in Hours |->
                     IF h >= SlotHour(Head(slots)) THEN Head(slots).value ELSE map[h]],
                  Tail(slots))

\* analyzeHourlyISF, "Create hourly ISF map": slot.value || 30, then each
\* slot in list order overwrites the hours startHour..23.
DefaultISF == 300

BuildHourlyISFMap(validISFSlots) ==
  FillISFMap([h \in Hours |->
                IF validISFSlots[1].value = 0 THEN DefaultISF ELSE validISFSlots[1].value],
             validISFSlots)

\* treatments.some(t => (t.carbs || 0) >= 5 && |mealTime - correctionTime| < 30 min)
NearbyMealWindow == 30

HasNearbyMeal(c, treatments) ==
  \E i \in 1..Len(treatments) :
     /\ treatments[i].carbs >= 5
     /\ Abs(treatments[i].t - c.t) < NearbyMealWindow

\* the filter of analyzeCorrectionBoluses
IsCorrectionBolus(t) == t.insulin > 3 /\ t.insulin < 15 /\ t.carbs = 0

\* the map callback of analyzeCorrectionBoluses followed by the filter of
\* null results: <<>> when the correction is skipped, else <<analysis>>
AnalyzeCorrection(c, treatments, hourlyISFMap) ==
  LET hour         == HourOf(c.t)
      currentISF   == hourlyISFMap[hour]
      nearbyMeal   == HasNearbyMeal(c, treatments)
      expectedDrop == Rat(c.insulin * currentISF, 100)
      finalGlucose == IF c.g2h # NoReading THEN c.g2h ELSE c.g3h
      hasDrop      == finalGlucose # NoReading
      actualDrop   == c.pre - finalGlucose
      efficiency   == IF hasDrop /\ RLt(RInt(0), expectedDrop)
                      THEN RDiv(RInt(actualDrop), expectedDrop) ELSE Null
      minDrop      == RMin(RMul(expectedDrop, Rat(3, 10)), RInt(30))
      reasonableEfficiency ==
                      /\ efficiency # Null
                      /\ RLt(Rat(2, 10), efficiency)
                      /\ RLt(efficiency, RInt(3))
      success      == /\ hasDrop
                      /\ finalGlucose >= 70
                      /\ finalGlucose < c.pre
                      /\ RLt(minDrop, RInt(actualDrop))
                      /\ reasonableEfficiency
                      /\ ~nearbyMeal
  IN  IF c.pre = NoReading \/ c.pre < 150 THEN <<>>
      ELSE IF efficiency # Null /\ RLt(efficiency, Rat(1, 10)) /\ c.insulin > 10 THEN <<>>
      ELSE << [timestamp |-> c.t, hour |-> hour, correctionInsulin |-> Rat(c.insulin, 10),
               preGlucose |-> c.pre, glucoseAt2h |-> c.g2h, glucoseAt3h |-> c.g3h,
               efficiency |-> efficiency, success |-> success,
               currentISF |-> currentISF, nearbyMeal |-> nearbyMeal] >>

analyzeCorrectionBoluses(treatments, hourlyISFMap) ==
  ConcatAll(MapSeq(SelectSeq(treatments, IsCorrectionBolus),
                   LAMBDA c : AnalyzeCorrection(c, treatments, hourlyISFMap)))

\* analyzeTempBasalCorrections: .filter(eventType === "Temp Basal").filter(rate > 0)
IsTempBasal(t) == t.eventType = "Temp Basal" /\ t.rate > 0

\* tempBasals.reduce((sum, t) => sum + t.rate, 0) / tempBasals.length, in U/h
AvgTempBasalRate(tempBasals) ==
  Rat(SumSeq(MapSeq(tempBasals, LAMBDA t : t.rate)), 100 * Len(tempBasals))

TempBasalMealWindow == 120

\* the map callback of analyzeTempBasalCorrections followed by the filter of
\* null results
AnalyzeTempBasal(tb, treatments, hourlyISFMap, avgRate) ==
  LET hour          == HourOf(tb.t)
      baselineRate  == RMul(avgRate, Rat(8, 10))
      basalIncrease == RMax(RInt(0), RSub(Rat(tb.rate, 100), baselineRate))
      correctionInsulin == RMul(basalIncrease, Rat(tb.duration, 60))
      nearbyMeal    == \E i \in 1..Len(treatments) :
                          /\ treatments[i].carbs >= 5
                          /\ Abs(treatments[i].t - tb.t) < TempBasalMealWindow
      finalGlucose  == IF tb.g2h # NoReading THEN tb.g2h ELSE tb.g3h
      actualDrop    == tb.pre - finalGlucose
      currentISF    == hourlyISFMap[hour]
      expectedDrop  == RMul(correctionInsulin, Rat(currentISF, 10))
      efficiency    == IF RLt(RInt(0), expectedDrop)
                       THEN RDiv(RInt(actualDrop), expectedDrop) ELSE RInt(0)
      success       == /\ actualDrop > 20
                       /\ RLt(Rat(5, 10), efficiency)
                       /\ 10 * finalGlucose < 9 * tb.pre
  IN  IF tb.pre = NoReading \/ tb.pre < 120 THEN <<>>
      ELSE IF RLt(correctionInsulin, Rat(5, 100)) THEN <<>>
      ELSE IF tb.g2h = NoReading /\ tb.g3h = NoReading THEN <<>>
      ELSE << [timestamp |-> tb.t, hour |-> hour, correctionInsulin |-> correctionInsulin,
               preGlucose |-> tb.pre, glucoseAt2h |-> tb.g2h, glucoseAt3h |-> tb.g3h,
               efficiency |-> efficiency, success |-> success,
               currentISF |-> currentISF, nearbyMeal |-> nearbyMeal] >>

analyzeTempBasalCorrections(treatments, hourlyISFMap) ==
  LET tempBasals == SelectSeq(treatments, IsTempBasal)
      avgRate    == AvgTempBasalRate(tempBasals)
      threshold  == RMax(RMul(avgRate, Rat(15, 10)), Rat(6, 10))
      correctionBasals == SelectSeq(tempBasals, LAMBDA tb : RLt(threshold, Rat(tb.rate, 100)))
  IN  IF tempBasals = <<>> THEN <<>>
      ELSE ConcatAll(MapSeq(correctionBasals,
             LAMBDA tb : AnalyzeTempBasal(tb, treatments, hourlyISFMap, avgRate)))

\* "SAFETY GUARD": a reading below 70 among the valid corrections, or a
\* correction with no insulin
HypoThreshold == 70

BlockISFReduction(validCorrections) ==
  \E i \in 1..Len(validCorrections) :
     LET c == validCorrections[i]
     IN  \/ \E g \in {c.preGlucose, c.glucoseAt2h, c.glucoseAt3h} :
               g # NoReading /\ g < HypoThreshold
         \/ c.correctionInsulin = RInt(0)

NoISFChange(hour, currentISF, count) ==
  [hour |-> hour, currentISF |-> currentISF, suggestedISF |-> currentISF,
   adjustmentPct |-> 0, confidence |-> 0, correctionCount |-> count,
   avgEfficiency |-> 0, successRate |-> 0]

MinISF == 10

MaxISFAdjustmentPct == 30

\* "Clamp adjustment to max +-30%": <<suggestedISF, adjustmentPct>> before rounding
ClampISF(cur, theoreticalSuggestedISF) ==
  LET unclampedISF == RMax(RInt(MinISF), theoreticalSuggestedISF)
      unclampedPct == RMul(RDiv(RSub(unclampedISF, cur), cur), RInt(100))
      clampedPct   == RMax(RInt(-MaxISFAdjustmentPct),
                           RMin(RInt(MaxISFAdjustmentPct), unclampedPct))
  IN  <<RMul(cur, RAdd(RInt(1), RDiv(clampedPct, RInt(100)))), clampedPct>>

calculateHourlyISFAdjustment(hour, currentISF, corrections) ==
  LET validCorrections == SelectSeq(corrections, LAMBDA c : c.efficiency # Null)
      n                == Len(validCorrections)
      blockISFReduction == BlockISFReduction(validCorrections)
      successRate      == Rat(Len(SelectSeq(validCorrections, LAMBDA c : c.success)), n)
      avgEfficiency    == RDiv(RSumSeq(MapSeq(validCorrections, LAMBDA c : c.efficiency)),
                               RInt(n))
      cur              == Rat(currentISF, 10)
      theoreticalSuggestedISF == RMul(cur, RDiv(avgEfficiency, Rat(9, 10)))
      adjusted         ==
        IF ~RLt(RInt(0), avgEfficiency) THEN <<cur, RInt(0)>>
        ELSE IF blockISFReduction /\ RLt(theoreticalSuggestedISF, cur)
             THEN <<cur, RInt(0)>>
             ELSE ClampISF(cur, theoreticalSuggestedISF)
  IN  IF Len(corrections) < 2 THEN NoISFChange(hour, currentISF, Len(corrections))
      ELSE IF n = 0 THEN NoISFChange(hour, currentISF, 0)
      ELSE [hour |-> hour, currentISF |-> currentISF,
            suggestedISF |-> MathRound(RMul(adjusted[1], RInt(10))),
            adjustmentPct |-> MathRound(adjusted[2]),
            confidence |-> Min(100, 20 * n),
            correctionCount |-> n,
            avgEfficiency |-> MathRound(RMul(avgEfficiency, RInt(100))),
            successRate |-> MathRound(RMul(successRate, RInt(100)))]

\* (c.minute ?? 0): no analyzer sets the field
CorrectionMinute(c) == IF "minute" \in DOMAIN c THEN c.minute ELSE 0

TimeIndex(tm) == tm.h * 60 + tm.m

RECURSIVE SortedTimes(_)
SortedTimes(S) ==
  IF S = {} THEN <<>>
  ELSE LET first == CHOOSE x \in S : \A y \in S : TimeIndex(x) <= TimeIndex(y)
       IN  <<first>> \o SortedTimes(S \ {first})

SignificantISFChangePct == 10

\* the body of the hour / minute loop of analyzeAllHoursForISF for one (hour, minute)
ISFCandidate(tm, allCorrections, hourlyISFMap, existingSlots) ==
  LET corrections == SelectSeq(allCorrections,
                       LAMBDA c : /\ c.hour = tm.h
                                  /\ ~c.nearbyMeal
                                  /\ CorrectionMinute(c) = tm.m)
      adjustment  == calculateHourlyISFAdjustment(tm.h, hourlyISFMap[tm.h], corrections)
      isNewSlot   == ~\E i \in 1..Len(existingSlots) : existingSlots[i].time = tm
      isSignificantChange == Abs(adjustment.adjustmentPct) >= SignificantISFChangePct
      isProfileCompliant  == ~isNewSlot /\ ~isSignificantChange /\ Len(corrections) >= 2
  IN  IF corrections = <<>> THEN <<>>
      ELSE IF \/ ~isNewSlot
              \/ (isNewSlot /\ isSignificantChange /\ Len(corrections) >= 2)
              \/ isProfileCompliant
           THEN << [hour |-> adjustment.hour,
                    currentISF |-> adjustment.currentISF,
                    suggestedISF |-> adjustment.suggestedISF,
                    adjustmentPct |-> adjustment.adjustmentPct,
                    confidence |-> adjustment.confidence,
                    correctionCount |-> adjustment.correctionCount,
                    avgEfficiency |-> RInt(adjustment.avgEfficiency),
                    successRate |-> RInt(adjustment.successRate),
                    time |-> tm,
                    isNewSlot |-> isNewSlot,
                    isProfileCompliant |-> isProfileCompliant,
                    affectedHours |-> <<>>] >>
           ELSE <<>>

\* the candidates ("results") analyzeAllHoursForISF hands to the optimizer,
\* in the order of its hour / minute loop
ISFCandidates(allCorrections, hourlyISFMap, existingSlots) ==
  LET times == SortedTimes({Time(allCorrections[i].hour, CorrectionMinute(allCorrections[i])) :
                              i \in 1..Len(allCorrections)})
  IN  ConcatAll(MapSeq(times,
        LAMBDA tm : ISFCandidate(tm, allCorrections, hourlyISFMap, existingSlots)))

\* the ownership test of optimizeISFTimeSlots for slot idx
InSlotRange(problemTime, existingSlots, idx) ==
  IF idx < Len(existingSlots)
  THEN /\ TimeGe(problemTime, existingSlots[idx].time)
       /\ TimeLt(problemTime, existingSlots[idx + 1].time)
  ELSE TimeGe(problemTime, existingSlots[idx].time)

\* problemsInRange.reduce((best, current) =>
\*   current.confidence > best.confidence ? current : best)
RECURSIVE BestProblem(_, _)
BestProblem(best, rest) ==
  IF rest = <<>> THEN best
  ELSE BestProblem(IF Head(rest).confidence > best.confidence THEN Head(rest) ELSE best,
                   Tail(rest))

\* the record optimizeISFTimeSlots pushes for one existing slot:
\* <<"modification", m>> or <<"compliant", c>>
ISFSlotVerdict(needsOptimization, existingSlots, idx) ==
  LET slot            == existingSlots[idx]
      currentISF      == slot.value
      problemsInRange == SelectSeq(needsOptimization,
                           LAMBDA p : InSlotRange(p.time, existingSlots, idx))
      bestProblem     == BestProblem(Head(problemsInRange), Tail(problemsInRange))
      k               == Len(problemsInRange)
  IN  IF k > 0
      THEN <<"modification",
             [hour |-> slot.time.h, time |-> slot.time,
              currentISF |-> currentISF,
              suggestedISF |-> bestProblem.suggestedISF,
              adjustmentPct |->
                MathRound(RMul(Rat(bestProblem.suggestedISF - currentISF, currentISF),
                               RInt(100))),
              confidence |-> bestProblem.confidence,
              correctionCount |->
                SumSeq(MapSeq(problemsInRange, LAMBDA p : p.correctionCount)),
              avgEfficiency |->
                RDiv(RSumSeq(MapSeq(problemsInRange, LAMBDA p : p.avgEfficiency)), RInt(k)),
              successRate |->
                RDiv(RSumSeq(MapSeq(problemsInRange, LAMBDA p : p.successRate)), RInt(k)),
              isNewSlot |-> FALSE,
              isProfileCompliant |-> FALSE,
              affectedHours |-> MapSeq(problemsInRange, LAMBDA p : p.hour)]>>
      ELSE <<"compliant",
             [hour |-> slot.time.h, time |-> slot.time,
              currentISF |-> currentISF, suggestedISF |-> currentISF,
              adjustmentPct |-> 0, confidence |-> 100, correctionCount |-> 0,
              avgEfficiency |-> RInt(100), successRate |-> RInt(100),
              isNewSlot |-> FALSE, isProfileCompliant |-> TRUE,
              affectedHours |-> <<>>]>>

EmptyBuckets == [modifications |-> <<>>, newSlots |-> <<>>, profileCompliant |-> <<>>]

optimizeISFTimeSlots(results, existingSlots) ==
  LET needsOptimization == SelectSeq(results, LAMBDA r : ~r.isProfileCompliant)
      compliantEntries  == SelectSeq(results, LAMBDA r : r.isProfileCompliant)
      verdicts          == [idx \in 1..Len(existingSlots) |->
                              ISFSlotVerdict(needsOptimization, existingSlots, idx)]
      trulyNewProblems  == SelectSeq(needsOptimization,
                             LAMBDA p : ~\E idx \in 1..Len(existingSlots) :
                                           InSlotRange(p.time, existingSlots, idx))
  IN  IF results = <<>> THEN EmptyBuckets
      ELSE [modifications |->
              MapSeq(SelectSeq(verdicts, LAMBDA v : v[1] = "modification"), LAMBDA v : v[2]),
            newSlots |-> trulyNewProblems,
            profileCompliant |->
              compliantEntries \o
              MapSeq(SelectSeq(verdicts, LAMBDA v : v[1] = "compliant"), LAMBDA v : v[2])]

analyzeAllHoursForISF(allCorrections, hourlyISFMap, existingSlots) ==
  optimizeISFTimeSlots(ISFCandidates(allCorrections, hourlyISFMap, existingSlots),
                       existingSlots)

analyzeHourlyISF(treatments, profileISF) ==
  IF profileISF = <<>> THEN EmptyBuckets
  ELSE LET hourlyISFMap == BuildHourlyISFMap(profileISF)
           allCorrections == analyzeCorrectionBoluses(treatments, hourlyISFMap)
                             \o analyzeTempBasalCorrections(treatments, hourlyISFMap)
       IN  analyzeAllHoursForISF(allCorrections, hourlyISFMap, profileISF)

(***************************************************************************)
(* Hourly aggregator and basal adjuster                                    *)
(*                                                                         *)
(* A glucose entry is [t, sgv]: its instant in minutes and its value, or   *)
(* NoReading when the entry carries no sgv / glucose field.                *)
(***************************************************************************)
\* hourlyAverage: 24 buckets; an entry without a value is skipped; the mean
\* of a non-empty bucket, null for an empty one.  Index h + 1 is hour h.
HourBucket(entriesArray, hour) ==
  SelectSeq(entriesArray, LAMBDA e : e.sgv # NoReading /\ HourOf(e.t) = hour)

\* hourlyAverage without the "if (bg == null) return" guard
hourlyAverageUnguarded(entriesArray) ==
  [i \in 1..24 |->
     LET arr == SelectSeq(entriesArray, LAMBDA e : HourOf(e.t) = i - 1)
     IN  IF Len(arr) > 0
         THEN Rat(SumSeq(MapSeq(arr, LAMBDA e : e.sgv)), Len(arr))
         ELSE Null]

hourlyAverage(entriesArray) ==
  [i \in 1..24 |->
     LET arr == HourBucket(entriesArray, i - 1)
     IN  IF Len(arr) > 0
         THEN Rat(SumSeq(MapSeq(arr, LAMBDA e : e.sgv)), Len(arr))
         ELSE Null]

DefaultTarget == 100

\* the simple algorithm with its thresholds made inclusive
SimpleBasalAdjustmentInclusive(avg, target) ==
  LET delta == RSub(avg, RInt(target))
      steps == MathRound(RDiv(delta, RInt(15))) * 5
  IN  IF avg = Null THEN 0
      ELSE IF RLe(RInt(20), delta) THEN Min(steps, 30)
      ELSE IF RLe(delta, RInt(-20)) THEN Max(steps, -30)
      ELSE 0

\* the simple algorithm of computeBasalAdjustments for one hourly average
SimpleBasalAdjustment(avg, target) ==
  LET delta == RSub(avg, RInt(target))
      steps == MathRound(RDiv(delta, RInt(15))) * 5
  IN  IF avg = Null THEN 0
      ELSE IF RLt(RInt(20), delta) THEN Min(steps, 30)
      ELSE IF RLt(delta, RInt(-20)) THEN Max(steps, -30)
      ELSE 0

\* filterInsulinActivity: the exclusion window in minutes, scaled by dose and
\* shortened by a quarter for the hours 22..6
InsulinTimeWindow(insulin, targetHour) ==
  LET timeWindow == IF insulin < 20 THEN 150 ELSE IF insulin < 40 THEN 180 ELSE 210
  IN  IF targetHour >= 22 \/ targetHour <= 6
      THEN RMul(RInt(timeWindow), Rat(75, 100))
      ELSE RInt(timeWindow)

HasRecentInsulin(entry, insulinTreatments, targetHour) ==
  \E i \in 1..Len(insulinTreatments) :
     LET treatment == insulinTreatments[i]
         timeDiff  == entry.t - treatment.t
     IN  /\ ~(treatment.insulin = 0 \/ treatment.insulin < 5)
         /\ timeDiff > 0
         /\ RLt(RInt(timeDiff), InsulinTimeWindow(treatment.insulin, targetHour))

filterInsulinActivity(hourEntries, insulinTreatments, targetHour) ==
  SelectSeq(hourEntries, LAMBDA e : ~HasRecentInsulin(e, insulinTreatments, targetHour))

FallbackWindow == 120

\* the relaxed filter of analyzeBasalPeriods: no insulin within the last 2 hours
HasVeryRecentInsulin(entry, insulinTreatments) ==
  \E i \in 1..Len(insulinTreatments) :
     LET treatment == insulinTreatments[i]
         timeDiff  == entry.t - treatment.t
     IN  /\ ~(treatment.insulin = 0 \/ treatment.insulin < 5)
         /\ timeDiff > 0
         /\ timeDiff < FallbackWindow

RECURSIVE TrendCounts(_, _)
TrendCounts(values, i) ==
  IF i > Len(values) THEN <<0, 0>>
  ELSE LET diff == values[i] - values[i - 1]
           rest == TrendCounts(values, i + 1)
       IN  IF diff > 5 THEN <<rest[1] + 1, rest[2]>>
           ELSE IF diff < -5 THEN <<rest[1], rest[2] + 1>>
           ELSE rest

calculateTrend(values) ==
  LET c == TrendCounts(values, 2)
  IN  IF Len(values) < 3 \/ c[1] + c[2] = 0 THEN RInt(0)
      ELSE Rat(c[1] - c[2], c[1] + c[2])

\* calculateStability(values) < 0.7, i.e. a standard deviation above 18:
\* variance = (n * sum(v^2) - sum(v)^2) / n^2 > 324.  Values that hold an
\* undefined sgv make the stability NaN, and NaN < 0.7 is false.
StabilityBelow(values) ==
  LET n     == Len(values)
      sum   == SumSeq(values)
      sumSq == SumSeq(MapSeq(values, LAMBDA v : v * v))
  IN  /\ n >= 3
      /\ \A i \in 1..n : values[i] # NoReading
      /\ n * sumSq - sum * sum > 324 * n * n

IsNighttime(hour) == hour >= 23 \/ hour <= 6

EmptyPeriod(hour, hasInsulinActivity) ==
  [hour |-> hour, values |-> <<>>, trend |-> RInt(0), unstable |-> FALSE,
   confidence |-> RInt(0), isNighttime |-> IsNighttime(hour),
   hasInsulinActivity |-> hasInsulinActivity]

\* the hour loop body keeping every reading of the hour when too few pass
\* the insulin filters
BasalPeriodUnfiltered(entries, insulinTreatments, hour) ==
  LET hourEntries  == SelectSeq(entries, LAMBDA e : HourOf(e.t) = hour)
      cleanEntries == filterInsulinActivity(hourEntries, insulinTreatments, hour)
      finalEntries == IF Len(cleanEntries) < 3 THEN hourEntries ELSE cleanEntries
      values       == MapSeq(finalEntries, LAMBDA e : e.sgv)
  IN  IF Len(hourEntries) < 3 THEN EmptyPeriod(hour, FALSE)
      ELSE [hour |-> hour, values |-> values, trend |-> calculateTrend(values),
            unstable |-> StabilityBelow(values),
            confidence |-> RMin(RInt(1), Rat(Len(finalEntries), 10)),
            isNighttime |-> IsNighttime(hour),
            hasInsulinActivity |-> Len(cleanEntries) < 3]

\* the body of the hour loop of analyzeBasalPeriods: the period it pushes
BasalPeriod(entries, insulinTreatments, hour) ==
  LET hourEntries  == SelectSeq(entries, LAMBDA e : HourOf(e.t) = hour)
      cleanEntries == filterInsulinActivity(hourEntries, insulinTreatments, hour)
      relaxed      == Len(cleanEntries) < 3 /\ Len(hourEntries) >= 10
      finalEntries == IF relaxed
                      THEN SelectSeq(hourEntries,
                             LAMBDA e : ~HasVeryRecentInsulin(e, insulinTreatments))
                      ELSE cleanEntries
      hasInsulinActivity == relaxed \/ 10 * Len(cleanEntries) < 7 * Len(hourEntries)
      values       == MapSeq(finalEntries, LAMBDA e : e.sgv)
  IN  IF Len(hourEntries) < 3 THEN EmptyPeriod(hour, FALSE)
      ELSE IF Len(finalEntries) < 3 THEN EmptyPeriod(hour, TRUE)
      ELSE [hour |-> hour, values |-> values, trend |-> calculateTrend(values),
            unstable |-> StabilityBelow(values),
            confidence |-> RMin(RInt(1), Rat(Len(finalEntries), 10)),
            isNighttime |-> IsNighttime(hour),
            hasInsulinActivity |-> hasInsulinActivity]

analyzeBasalPeriods(entries, insulinTreatments) ==
  [i \in 1..24 |-> BasalPeriod(entries, insulinTreatments, i - 1)]

\* "Base adjustment calculation" of the detailed algorithm
BaseBasalAdjustment(delta) ==
  IF RLt(RInt(50), delta) THEN Min(30, MathRound(RMul(delta, Rat(5, 10))))
  ELSE IF RLt(RInt(30), delta) THEN Min(25, MathRound(RMul(delta, Rat(4, 10))))
  ELSE IF RLt(RInt(15), delta) THEN Min(20, MathRound(RMul(delta, Rat(6, 10))))
  ELSE IF RLt(delta, RInt(-30)) THEN Max(-25, MathRound(RMul(delta, Rat(4, 10))))
  ELSE IF RLt(delta, RInt(-15)) THEN Max(-15, MathRound(RMul(delta, Rat(5, 10))))
  ELSE 0

\* the map callback with the night factor dividing instead of multiplying
DetailedBasalAdjustmentNightBoost(period, target) ==
  LET n          == Len(period.values)
      hasNaN     == \E i \in 1..n : period.values[i] = NoReading
      delta      == RSub(Rat(SumSeq(period.values), n), RInt(target))
      base       == RInt(BaseBasalAdjustment(delta))
      stabilityPenalty == IF period.unstable
                          THEN (IF period.isNighttime THEN Rat(8, 10) ELSE Rat(6, 10))
                          ELSE RInt(1)
      conservatismFactor == IF period.isNighttime THEN Rat(10, 8) ELSE RInt(1)
      activityFactor == IF period.hasInsulinActivity THEN Rat(7, 10) ELSE RInt(1)
  IN  IF n < 3 THEN 0
      ELSE IF hasNaN THEN 0
      ELSE MathRound(RMul(RMul(RMul(base, stabilityPenalty), period.confidence),
                          RMul(conservatismFactor, activityFactor)))

\* the map callback of the detailed algorithm of computeBasalAdjustments
DetailedBasalAdjustment(period, target) ==
  LET n          == Len(period.values)
      hasNaN     == \E i \in 1..n : period.values[i] = NoReading
      avgGlucose == Rat(SumSeq(period.values), n)
      delta      == RSub(avgGlucose, RInt(target))
      base       == RInt(BaseBasalAdjustment(delta))
      stabilityPenalty == IF period.unstable
                          THEN (IF period.isNighttime THEN Rat(8, 10) ELSE Rat(6, 10))
                          ELSE RInt(1)
      nightFactor == IF period.isNighttime THEN Rat(8, 10) ELSE RInt(1)
      conservatismFactor == IF RLt(RInt(40), delta)
                            THEN RMax(nightFactor, Rat(9, 10)) ELSE nightFactor
      activityFactor == IF period.hasInsulinActivity THEN Rat(7, 10) ELSE RInt(1)
  IN  IF n < 3 THEN 0
      ELSE IF hasNaN THEN 0
      ELSE MathRound(RMul(RMul(RMul(base, stabilityPenalty), period.confidence),
                          RMul(conservatismFactor, activityFactor)))

DetailedModeThreshold == 100

\* computeBasalAdjustments returning in detailed mode only the hours that have
\* readings
computeBasalAdjustmentsSparse(hourlyAvgIn, entriesIn, insulinTreatments, target) ==
  IF Len(entriesIn) < DetailedModeThreshold
  THEN MapSeq(hourlyAvgIn, LAMBDA avg : SimpleBasalAdjustment(avg, target))
  ELSE MapSeq(SelectSeq(analyzeBasalPeriods(entriesIn, insulinTreatments),
                        LAMBDA period : Len(period.values) > 0),
              LAMBDA period : DetailedBasalAdjustment(period, target))

computeBasalAdjustments(hourlyAvg, entries, insulinTreatments, target) ==
  IF Len(entries) < DetailedModeThreshold
  THEN MapSeq(hourlyAvg, LAMBDA avg : SimpleBasalAdjustment(avg, target))
  ELSE MapSeq(analyzeBasalPeriods(entries, insulinTreatments),
              LAMBDA period : DetailedBasalAdjustment(period, target))

(***************************************************************************)
(* Profile expansion and basal change suggestions                          *)
(*                                                                         *)
(* A basal slot is [time, value], value in thousandths of U/h.             *)
(***************************************************************************)
\* Number.prototype.toFixed(digits) read back by parseFloat: scale is 10^digits
ToFixed(r, scale) ==
  LET mag == MathRound(RMul(RAbs(r), RInt(scale)))
  IN  Rat(IF r[1] < 0 THEN -mag ELSE mag, scale)

\* the array after "hourly[Number(h)] = value" for every slot in turn: the
\* last slot of an hour wins, and writing past the end grows the array
AssignSlots(hourly, slots) ==
  LET hours == { SlotHour(slots[k]) : k \in 1..Len(slots) }
      top   == IF hours = {} THEN 0 ELSE CHOOSE h \in hours : \A g \in hours : g <= h
  IN  [i \in 1..Max(Len(hourly), top + 1) |->
         LET writers == { k \in 1..Len(slots) : SlotHour(slots[k]) = i - 1 }
         IN  IF writers # {}
             THEN <<slots[CHOOSE k \in writers : \A j \in writers : j <= k].value>>
             ELSE IF i <= Len(hourly) THEN hourly[i] ELSE Null]

\* "Fill forward if missing": the filled hours 0..23, oldest first
RECURSIVE ForwardFill(_, _, _, _)
ForwardFill(hourly, i, last, acc) ==
  IF i > 24 THEN acc
  ELSE IF hourly[i] = Null
       THEN ForwardFill(hourly, i + 1, last, Append(acc, last))
       ELSE ForwardFill(hourly, i + 1, hourly[i][1], Append(acc, hourly[i][1]))

\* expandTo24Hours: hour -> value map, forward filled, last starting at
\* hourly[0] or 0
expandTo24Hours(basalArray) ==
  LET hourly == AssignSlots([i \in 1..24 |-> Null], basalArray)
      filled == ForwardFill(hourly, 1, IF hourly[1] # Null THEN hourly[1][1] ELSE 0, <<>>)
  IN  [i \in 1..Len(hourly) |->
         [time |-> Time(i - 1, 0),
          value |-> IF i <= 24 THEN filled[i] ELSE hourly[i][1]]]

\* "Tworzymy pelny profil 24h" of suggestBasalChanges
RECURSIVE FullBasal(_, _, _)
FullBasal(basalProfile, h, acc) ==
  IF h > 23 THEN acc
  ELSE LET existing == SelectSeq(basalProfile, LAMBDA b : SlotHour(b) = h)
           value    == IF existing # <<>> THEN Head(existing).value
                       ELSE IF h > 0 THEN acc[h] ELSE 0
       IN  FullBasal(basalProfile, h + 1, Append(acc, value))

\* the body of the second loop of suggestBasalChanges for hour h
SuggestedBasalChange(fullBasal, avgGlucosePerHour, h, targetGlucose, basalStep, insulinActionHours, sensitivity, maxDelta) ==
  LET oldValue  == Rat(fullBasal[h + 1], 1000)
      deviation(i) ==
        LET hourIndex == (h + i) % 24
            avg == IF hourIndex + 1 <= Len(avgGlucosePerHour)
                      /\ avgGlucosePerHour[hourIndex + 1] # Null
                   THEN avgGlucosePerHour[hourIndex + 1] ELSE RInt(targetGlucose)
        IN  RDiv(RSub(avg, RInt(targetGlucose)), RInt(targetGlucose))
      influence == RMul(RDiv(RSumSeq([i \in 1..insulinActionHours |-> deviation(i - 1)]),
                             RInt(insulinActionHours)),
                        sensitivity)
      clamped   == RMax(RNeg(maxDelta), RMin(maxDelta, RMul(influence, oldValue)))
      newValue  == RMul(RInt(MathRound(RDiv(RAdd(oldValue, clamped), basalStep))), basalStep)
      delta     == RSub(newValue, oldValue)
      deltaPercent == IF oldValue[1] # 0 THEN RMul(RDiv(delta, oldValue), RInt(100))
                      ELSE IF RLt(RInt(0), delta) THEN RInt(100) ELSE RInt(0)
  IN  [time |-> Time(h, 0),
       oldValue |-> ToFixed(oldValue, 100000),
       newValue |-> ToFixed(newValue, 100000),
       delta |-> ToFixed(delta, 100000),
       deltaPercent |-> ToFixed(deltaPercent, 100)]

DefaultBasalStep == Rat(5, 100)

DefaultMaxDelta == Rat(5, 100)

DefaultSensitivity == Rat(2, 10)

DefaultInsulinActionHours == 4

suggestBasalChanges(basalProfile, avgGlucosePerHour) ==
  LET fullBasal == FullBasal(basalProfile, 0, <<>>)
  IN  [i \in 1..24 |->
         SuggestedBasalChange(fullBasal, avgGlucosePerHour, i - 1, DefaultTarget,
                              DefaultBasalStep, DefaultInsulinActionHours,
                              DefaultSensitivity, DefaultMaxDelta)]

(***************************************************************************)
(* Meal / ICR analyzer                                                     *)
(*                                                                         *)
(* A meal treatment is [t, carbs, insulin]: t its instant in minutes,      *)
(* carbs in grams, insulin in tenths of U.  An ICR slot is [time, value],  *)
(* value in tenths of g/U; ICR values, percentages, rates and confidences  *)
(* are exact fractions.  toFixed is taken on the exact decimal value.      *)
(***************************************************************************)
RECURSIVE ClosestEntry(_, _, _)
ClosestEntry(es, targetTime, best) ==
  IF es = <<>> THEN best
  ELSE LET entry == Head(es)
           diff  == Abs(entry.t - targetTime)
       IN  IF (best = <<>> \/ diff < best[1]) /\ entry.sgv # NoReading
           THEN ClosestEntry(Tail(es), targetTime, <<diff, entry.sgv>>)
           ELSE ClosestEntry(Tail(es), targetTime, best)

MaxGlucoseDistance == 30

\* findGlucoseAt: the value closest to targetTime, at most 30 minutes away
findGlucoseAt(es, targetTime) ==
  LET best == ClosestEntry(es, targetTime, <<>>)
  IN  IF best # <<>> /\ best[1] < MaxGlucoseDistance THEN best[2] ELSE NoReading

\* findPeakGlucose: the highest value in [mealTime, mealTime + window]
findPeakGlucose(es, mealTime, window) ==
  LET inWindow == { i \in 1..Len(es) : /\ es[i].t >= mealTime
                                       /\ es[i].t <= mealTime + window
                                       /\ es[i].sgv # NoReading }
  IN  IF inWindow = {} THEN NoReading
      ELSE es[CHOOSE i \in inWindow : \A j \in inWindow : es[j].sgv <= es[i].sgv].sgv

DefaultICR == 100

\* expandICRTo24Hours: hour -> value in tenths of g/U, forward filled from
\* hourlyICR[0] || 10
expandICRTo24Hours(profileICR) ==
  LET hourlyICR == AssignSlots([i \in 1..24 |-> Null], profileICR)
      first     == IF hourlyICR[1] # Null /\ hourlyICR[1][1] # 0
                   THEN hourlyICR[1][1] ELSE DefaultICR
      filled    == ForwardFill(hourlyICR, 1, first, <<>>)
  IN  [i \in 1..Len(hourlyICR) |-> IF i <= 24 THEN filled[i] ELSE hourlyICR[i][1]]

\* the meal filter of analyzeMealsWithHours
IsMeal(t) ==
  t.carbs > 5 \/ (t.insulin > 0 /\ t.carbs > 0) \/ (t.insulin > 10 /\ t.carbs >= 0)

PeakWindow == 180

\* the map callback of analyzeMealsWithHours
MealAnalysisOf(meal, es, hourlyICRMap) ==
  LET hour        == HourOf(meal.t)
      activeICR   == Rat(hourlyICRMap[hour + 1], 10)
      preGlucose  == findGlucoseAt(es, meal.t - 30)
      peakGlucose == findPeakGlucose(es, meal.t, PeakWindow)
      glucoseAt2h == findGlucoseAt(es, meal.t + 120)
      preGlucoseBonus == IF preGlucose # NoReading /\ preGlucose > 140 THEN 20 ELSE 0
      peakTarget  == IF meal.carbs <= 15 THEN 180 + preGlucoseBonus
                     ELSE IF meal.carbs <= 30 THEN 190 + preGlucoseBonus
                     ELSE 200 + preGlucoseBonus
      target2h    == IF meal.carbs <= 15 THEN 140
                     ELSE IF meal.carbs <= 30 THEN 150 ELSE 160
  IN  [timestamp |-> meal.t, hour |-> hour, carbs |-> meal.carbs,
       insulin |-> meal.insulin, preGlucose |-> preGlucose,
       peakGlucose |-> peakGlucose, glucoseAt2h |-> glucoseAt2h,
       activeICR |-> activeICR,
       effectiveICR |-> IF meal.insulin > 0 THEN Rat(meal.carbs * 10, meal.insulin)
                        ELSE activeICR,
       success |-> /\ peakGlucose # NoReading
                   /\ glucoseAt2h # NoReading
                   /\ peakGlucose < peakTarget
                   /\ glucoseAt2h < target2h]

analyzeMealsWithHours(es, treatmentList, hourlyICRMap) ==
  SelectSeq(MapSeq(SelectSeq(treatmentList, IsMeal),
                   LAMBDA meal : MealAnalysisOf(meal, es, hourlyICRMap)),
            LAMBDA meal : meal.carbs > 0)

\* "Find which ICR time slot this meal belongs to", with the wrap-around
ApplicableICRHour(mealHour, profileICR) ==
  LET reached == { i \in 1..Len(profileICR) : mealHour >= SlotHour(profileICR[i]) }
      scanned == IF reached = {} THEN 0
                 ELSE SlotHour(profileICR[CHOOSE i \in reached : \A j \in reached : j <= i])
  IN  IF mealHour < SlotHour(profileICR[1])
      THEN SlotHour(profileICR[Len(profileICR)])
      ELSE scanned

\* groupMealsByICRHour: slot hour -> the meals of that group
groupMealsByICRHour(mealAnalyses, profileICR) ==
  [hour \in { SlotHour(profileICR[i]) : i \in 1..Len(profileICR) } |->
     SelectSeq(mealAnalyses,
               LAMBDA meal : ApplicableICRHour(meal.hour, profileICR) = hour)]

NoICRChange(hour, currentICR, count) ==
  [hour |-> hour, currentICR |-> currentICR, suggestedICR |-> currentICR,
   adjustmentPct |-> RInt(0), confidence |-> RInt(0), mealCount |-> count,
   successRate |-> RInt(0)]

IsValidMeal(m) ==
  m.preGlucose # NoReading /\ m.peakGlucose # NoReading /\ m.glucoseAt2h # NoReading

\* the same part suggesting currentICR * (1 + adjustmentPct / 100)
ICRAdjustmentFromValidRaising(hour, currentICR, validMeals) ==
  LET n == Len(validMeals)
      successRate == Rat(Len(SelectSeq(validMeals, LAMBDA m : m.success)), n)
      avgPeakExcess ==
        Rat(SumSeq(MapSeq(validMeals, LAMBDA m : Max(0, m.peakGlucose - 160))), n)
      avg2hExcess ==
        Rat(SumSeq(MapSeq(validMeals, LAMBDA m : Max(0, m.glucoseAt2h - 140))), n)
      Scaled(cap, peakDiv, twoHourDiv) ==
        RMin(RInt(cap), RMax(RDiv(avgPeakExcess, RInt(peakDiv)),
                             RDiv(avg2hExcess, RInt(twoHourDiv))))
      adjustmentPct ==
        IF RLt(successRate, Rat(3, 10)) THEN Scaled(20, 8, 5)
        ELSE IF RLt(successRate, Rat(5, 10)) THEN Scaled(15, 10, 7)
        ELSE IF RLt(successRate, Rat(7, 10)) THEN Scaled(10, 12, 10)
        ELSE IF RLt(RInt(20), avgPeakExcess) \/ RLt(RInt(15), avg2hExcess)
             THEN Scaled(5, 20, 15)
        ELSE RInt(0)
      confidence ==
        RMul(RMin(Rat(n, 3), RInt(1)),
             IF RLt(Rat(1, 10), successRate) THEN RInt(1) ELSE Rat(1, 2))
  IN  [hour |-> hour, currentICR |-> currentICR,
       suggestedICR |->
         ToFixed(RMul(currentICR, RAdd(RInt(1), RDiv(adjustmentPct, RInt(100)))), 100),
       adjustmentPct |-> ToFixed(adjustmentPct, 10),
       confidence |-> ToFixed(confidence, 100),
       mealCount |-> n,
       successRate |-> ToFixed(successRate, 100)]

\* the part of calculateHourlyAdjustment after its early returns
ICRAdjustmentFromValid(hour, currentICR, validMeals) ==
  LET n == Len(validMeals)
      successRate == Rat(Len(SelectSeq(validMeals, LAMBDA m : m.success)), n)
      avgPeakExcess ==
        Rat(SumSeq(MapSeq(validMeals, LAMBDA m : Max(0, m.peakGlucose - 160))), n)
      avg2hExcess ==
        Rat(SumSeq(MapSeq(validMeals, LAMBDA m : Max(0, m.glucoseAt2h - 140))), n)
      Scaled(cap, peakDiv, twoHourDiv) ==
        RMin(RInt(cap), RMax(RDiv(avgPeakExcess, RInt(peakDiv)),
                             RDiv(avg2hExcess, RInt(twoHourDiv))))
      adjustmentPct ==
        IF RLt(successRate, Rat(3, 10)) THEN Scaled(20, 8, 5)
        ELSE IF RLt(successRate, Rat(5, 10)) THEN Scaled(15, 10, 7)
        ELSE IF RLt(successRate, Rat(7, 10)) THEN Scaled(10, 12, 10)
        ELSE IF RLt(RInt(20), avgPeakExcess) \/ RLt(RInt(15), avg2hExcess)
             THEN Scaled(5, 20, 15)
        ELSE RInt(0)
      confidence ==
        RMul(RMin(Rat(n, 3), RInt(1)),
             IF RLt(Rat(1, 10), successRate) THEN RInt(1) ELSE Rat(1, 2))
  IN  [hour |-> hour, currentICR |-> currentICR,
       suggestedICR |->
         ToFixed(RMul(currentICR, RSub(RInt(1), RDiv(adjustmentPct, RInt(100)))), 100),
       adjustmentPct |-> ToFixed(adjustmentPct, 10),
       confidence |-> ToFixed(confidence, 100),
       mealCount |-> n,
       successRate |-> ToFixed(successRate, 100)]

\* calculateHourlyAdjustment that analyses a single meal as well
calculateHourlyAdjustmentFromOne(hour, currentICR, meals) ==
  LET validMeals == SelectSeq(meals, IsValidMeal)
  IN  IF Len(meals) < 1 THEN NoICRChange(hour, currentICR, Len(meals))
      ELSE IF Len(validMeals) = 0 THEN NoICRChange(hour, currentICR, 0)
      ELSE ICRAdjustmentFromValid(hour, currentICR, validMeals)

calculateHourlyAdjustment(hour, currentICR, meals) ==
  LET validMeals == SelectSeq(meals, IsValidMeal)
  IN  IF Len(meals) < 2 THEN NoICRChange(hour, currentICR, Len(meals))
      ELSE IF Len(validMeals) = 0 THEN NoICRChange(hour, currentICR, 0)
      ELSE ICRAdjustmentFromValid(hour, currentICR, validMeals)

\* mealsForHour of each profile slot, in profile order
ICRMealsForSlots(mealAnalyses, profileICR) ==
  LET hourlyGroups == groupMealsByICRHour(mealAnalyses, profileICR)
  IN  [i \in 1..Len(profileICR) |-> hourlyGroups[SlotHour(profileICR[i])]]

\* the adjustments analyzeHourlyICR pushes, one per profile slot
ICRAdjustments(mealsForSlots, profileICR) ==
  [i \in 1..Len(profileICR) |->
     calculateHourlyAdjustment(SlotHour(profileICR[i]),
                               Rat(profileICR[i].value, 10), mealsForSlots[i])]

\* the forEach callback of optimizeICRTimeSlots: the bucket and the record
ICRSlotVerdict(adj, profile) ==
  LET existingSlot == \E i \in 1..Len(profile) : SlotHour(profile[i]) = adj.hour
      isSignificantChange == /\ RLe(RInt(5), RAbs(adj.adjustmentPct))
                             /\ RLe(Rat(3, 10), adj.confidence)
      marked(isNew, compliant) ==
        [hour |-> adj.hour, currentICR |-> adj.currentICR,
         suggestedICR |-> IF compliant THEN adj.currentICR ELSE adj.suggestedICR,
         adjustmentPct |-> IF compliant THEN RInt(0) ELSE adj.adjustmentPct,
         confidence |-> adj.confidence, mealCount |-> adj.mealCount,
         successRate |-> adj.successRate, isNewSlot |-> isNew,
         isGroupedRecommendation |-> FALSE, affectedHours |-> <<adj.hour>>,
         isProfileCompliant |-> compliant]
  IN  IF existingSlot
      THEN IF isSignificantChange
           THEN [bucket |-> "modifications", record |-> marked(FALSE, FALSE)]
           ELSE [bucket |-> "profileCompliant", record |-> marked(FALSE, TRUE)]
      ELSE IF RLe(Rat(3, 10), adj.confidence) /\ RLe(RInt(10), RAbs(adj.adjustmentPct))
           THEN [bucket |-> "newSlots", record |-> marked(TRUE, FALSE)]
           ELSE [bucket |-> "none", record |-> marked(TRUE, FALSE)]

optimizeICRTimeSlots(adjustments, profile) ==
  LET verdicts == MapSeq(adjustments, LAMBDA adj : ICRSlotVerdict(adj, profile))
      Bucket(name) ==
        MapSeq(SelectSeq(verdicts, LAMBDA v : v.bucket = name), LAMBDA v : v.record)
  IN  [modifications |-> Bucket("modifications"),
       newSlots |-> Bucket("newSlots"),
       profileCompliant |-> Bucket("profileCompliant")]

analyzeHourlyICR(es, treatmentList, profileICR) ==
  IF Len(profileICR) = 0 THEN EmptyBuckets
  ELSE LET hourlyICRMap == expandICRTo24Hours(profileICR)
           mealAnalyses == analyzeMealsWithHours(es, treatmentList, hourlyICRMap)
       IN  optimizeICRTimeSlots(
             ICRAdjustments(ICRMealsForSlots(mealAnalyses, profileICR), profileICR),
             profileICR)

(***************************************************************************)
(* Profile change detector                                                 *)
(*                                                                         *)
(* A snapshot is [startDate, basal, carbRatio, sensitivity], startDate an  *)
(* instant in minutes, the day of a snapshot its UTC calendar day.         *)
(***************************************************************************)
DayOf(p) == p.startDate \div 1440

groupByDay(profiles) ==
  [day \in { DayOf(profiles[i]) : i \in 1..Len(profiles) } |->
     SelectSeq(profiles, LAMBDA p : DayOf(p) = day)]

\* Object.keys(profilesByDay).sort()
RECURSIVE SortedDays(_)
SortedDays(S) ==
  IF S = {} THEN <<>>
  ELSE LET first == CHOOSE d \in S : \A e \in S : d <= e
       IN  <<first>> \o SortedDays(S \ {first})

\* daysAgo(new Date(day), now), in days
daysAgo(day, now) == Rat(now - day * 1440, 1440)

\* the comparator all three callers pass: (a, b) => a.time === b.time && a.value === b.value
SlotEquals(a, b) == a.time = b.time /\ a.value = b.value

\* arrayEquals that stops after the length test
arrayEqualsByLength(a, b) == Len(a) = Len(b)

arrayEquals(a, b) ==
  IF Len(a) # Len(b) THEN FALSE
  ELSE \A i \in 1..Len(a) : SlotEquals(a[i], b[i])

hasBasalChanged(prev, curr) == ~arrayEquals(prev.basal, curr.basal)

hasICRChanged(prev, curr) == ~arrayEquals(prev.carbRatio, curr.carbRatio)

hasISFChanged(prev, curr) == ~arrayEquals(prev.sensitivity, curr.sensitivity)

buildResult(curr, prev, type) ==
  [day |-> DayOf(curr), type |-> type,
   curr |-> [basal |-> curr.basal, icr |-> curr.carbRatio, isf |-> curr.sensitivity],
   prev |-> [basal |-> prev.basal, icr |-> prev.carbRatio, isf |-> prev.sensitivity]]

\* the body of the day loop of detectChanges: the records it pushes for
\* sortedDays[i]; days = 0 stands for an undefined lookback
DayChanges(profilesByDay, sortedDays, i, days, now) ==
  LET currProfiles == profilesByDay[sortedDays[i]]
      prevProfiles == profilesByDay[sortedDays[i - 1]]
      curr == currProfiles[Len(currProfiles)]
      prev == prevProfiles[Len(prevProfiles)]
  IN  IF days # 0 /\ RLt(RInt(days), daysAgo(sortedDays[i], now)) THEN <<>>
      ELSE (IF hasBasalChanged(prev, curr) THEN <<buildResult(curr, prev, "basal")>> ELSE <<>>)
           \o (IF hasICRChanged(prev, curr) THEN <<buildResult(curr, prev, "icr")>> ELSE <<>>)
           \o (IF hasISFChanged(prev, curr) THEN <<buildResult(curr, prev, "isf")>> ELSE <<>>)

detectChanges(profiles, days, now) ==
  LET profilesByDay == groupByDay(profiles)
      sortedDays    == SortedDays(DOMAIN profilesByDay)
  IN  ConcatAll([k \in 1..(Len(sortedDays) - 1) |->
                   DayChanges(profilesByDay, sortedDays, k + 1, days, now)])

(***************************************************************************)
(* Cross-validator                                                         *)
(*                                                                         *)
(* An ICR adjustment handed to the validator is [hour, currentICR,         *)
(* suggestedICR], the ICR values in tenths of g/U.                         *)
(***************************************************************************)
HourGlucose(es, hour) ==
  MapSeq(SelectSeq(es, LAMBDA e : HourOf(e.t) = hour), LAMBDA e : e.sgv)

DefaultAvgGlucose == 100

IsNonMealHour(hour) == hour >= 23 \/ hour <= 5 \/ (hour >= 14 /\ hour <= 16)

\* isBasalOnlyIssue without its test of the ICR change
IsBasalOnlyIssueAnyICR(basalChange, icrChange) == Abs(basalChange) > 15

IsBasalOnlyIssue(basalChange, icrChange) ==
  Abs(basalChange) > 15 /\ RLt(RAbs(icrChange), RInt(5))

\* the forEach callback of validateProfileRecommendations: the conflicts it
\* pushes for one ICR adjustment
ValidateSlot(icr, basalAdjustments, es) ==
  LET hour        == icr.hour
      basalChange == IF hour + 1 <= Len(basalAdjustments)
                     THEN basalAdjustments[hour + 1] ELSE 0
      icrChange   == RMul(Rat(icr.suggestedICR - icr.currentICR, icr.currentICR), RInt(100))
      hourGlucose == HourGlucose(es, hour)
      avgGlucose  == IF Len(hourGlucose) > 0
                     THEN Rat(SumSeq(hourGlucose), Len(hourGlucose))
                     ELSE RInt(DefaultAvgGlucose)
      first == IF RLt(RInt(140), avgGlucose)
               THEN IF basalChange < -5 /\ RLt(RInt(5), icrChange)
                    THEN <<"high", "high glucose, basal down and ICR up">>
                    ELSE IF basalChange < 0 /\ RLt(RInt(0), icrChange)
                    THEN <<"medium", "high glucose, mixed signals">>
                    ELSE <<"low", "">>
               ELSE IF RLt(avgGlucose, RInt(80))
               THEN IF basalChange > 5 /\ RLt(icrChange, RInt(-5))
                    THEN <<"high", "low glucose, basal up and ICR down">>
                    ELSE IF basalChange > 0 /\ RLt(icrChange, RInt(0))
                    THEN <<"medium", "low glucose, mixed signals">>
                    ELSE <<"low", "">>
               ELSE <<"low", "">>
      flagged == \/ first[1] # "low"
                 \/ Abs(basalChange) > 15
                 \/ RLt(RInt(15), RAbs(icrChange))
      benign  == IsNonMealHour(hour) /\ IsBasalOnlyIssue(basalChange, icrChange)
      recommendation == IF benign /\ first[2] = "" THEN "basal adjustment in a non-meal period"
                        ELSE IF first[2] = "" THEN "large adjustments"
                        ELSE first[2]
  IN  IF flagged
      THEN << [hour |-> hour, basalChange |-> basalChange,
               icrChange |-> MathRound(icrChange),
               avgGlucose |-> MathRound(avgGlucose),
               conflictSeverity |-> IF benign THEN "low" ELSE first[1],
               recommendation |-> recommendation] >>
      ELSE <<>>

\* validateProfileRecommendations scoring against the 24 hours of the day
\* instead of the ICR adjustments checked
validateProfileRecommendationsPerHour(basalAdjustments, icrAdjustments, es) ==
  LET conflicts == ConcatAll(MapSeq(icrAdjustments,
                     LAMBDA icr : ValidateSlot(icr, basalAdjustments, es)))
  IN  [conflicts |-> conflicts,
       overallCoherence |-> RMax(RInt(0), RSub(RInt(1), Rat(Len(conflicts), 24)))]

validateProfileRecommendations(basalAdjustments, icrAdjustments, es) ==
  LET conflicts == ConcatAll(MapSeq(icrAdjustments,
                     LAMBDA icr : ValidateSlot(icr, basalAdjustments, es)))
      maxPossibleConflicts == Len(icrAdjustments)
  IN  [conflicts |-> conflicts,
       overallCoherence |->
         IF maxPossibleConflicts > 0
         THEN RMax(RInt(0), RSub(RInt(1), Rat(Len(conflicts), maxPossibleConflicts)))
         ELSE RInt(1)]

(***************************************************************************)
(* State                                                                   *)
(***************************************************************************)
VARIABLES
  stage,        \* "input" while the inputs are being loaded, "done" after the analysis
  treatments,   \* the treatment list handed to the analyzers
  profileISF,   \* the sensitivity slots of the profile: [time, value]
  isfOut,       \* the result of analyzeHourlyISF
  entries,      \* the glucose entries
  basalProfile, \* the basal slots of the profile: [time, value]
  hourlyAvg,    \* the result of hourlyAverage
  basalAdj,     \* the result of computeBasalAdjustments
  basalExpanded,\* the result of expandTo24Hours on the basal slots
  basalChange,  \* the result of suggestBasalChanges
  profileICR,   \* the carb ratio slots of the profile: [time, value]
  icrMeals,     \* mealAnalyses of analyzeHourlyICR
  icrGroups,    \* mealsForHour of each carb ratio slot
  icrAdjustments, \* adjustments of analyzeHourlyICR, one per slot
  icrOut,       \* the result of analyzeHourlyICR
  profileHistory, \* the profile snapshots handed to the ProfileChangeDetector
  pcdDays,      \* its lookback in days, 0 when undefined
  pcdOut,       \* the result of detectChanges
  cvIcr,        \* the ICR adjustments handed to the cross-validator
  cvOut,        \* the result of validateProfileRecommendations
  profile,      \* the profile handed to performAnalysis, Null when absent
  analysisResult, \* what performAnalysis returned, or that it threw
  callPc,       \* the position of each analyzeAndBuild call
  running,      \* useFetchFromApi: running
  fetchError,   \* useFetchFromApi: error
  analysisLoading, \* useAnalysis: analysisLoading
  analysisError,   \* useAnalysis: analysisError
  hookResult,   \* useAnalysis: result, as the call that produced it, 0 for null
  lastSettled   \* the call that settled last, 0 before any has

isfVars == <<profileISF, isfOut>>

basalVars == <<entries, basalProfile, hourlyAvg, basalAdj, basalExpanded, basalChange>>

icrVars == <<profileICR, icrMeals, icrGroups, icrAdjustments, icrOut>>

pcdVars == <<profileHistory, pcdDays, pcdOut>>

cvVars == <<cvIcr, cvOut>>

runVars == <<profile, analysisResult>>

hookVars == <<callPc, running, fetchError, analysisLoading, analysisError, hookResult,
              lastSettled>>

vars == <<stage, treatments, isfVars, basalVars, icrVars, pcdVars, cvVars, runVars,
          hookVars>>

ISFIdle == profileISF = <<>> /\ isfOut = EmptyBuckets

BasalIdle ==
  /\ entries = <<>>
  /\ basalProfile = <<>>
  /\ hourlyAvg = <<>>
  /\ basalAdj = <<>>
  /\ basalExpanded = <<>>
  /\ basalChange = <<>>

ICRIdle ==
  /\ profileICR = <<>>
  /\ icrMeals = <<>>
  /\ icrGroups = <<>>
  /\ icrAdjustments = <<>>
  /\ icrOut = EmptyBuckets

PCDIdle == profileHistory = <<>> /\ pcdDays = 0 /\ pcdOut = <<>>

NoValidation == [conflicts |-> <<>>, overallCoherence |-> RInt(1)]

CVIdle == cvIcr = <<>> /\ cvOut = NoValidation

RunIdle == profile = Null /\ analysisResult = Null

MaxCalls == 3

Calls == 1..MaxCalls

NoError == "null"

HooksIdle ==
  /\ callPc = [c \in Calls |-> "idle"]
  /\ running = FALSE
  /\ fetchError = NoError
  /\ analysisLoading = FALSE
  /\ analysisError = NoError
  /\ hookResult = 0
  /\ lastSettled = 0

(***************************************************************************)
(* Inputs of the ISF analysis                                              *)
(***************************************************************************)
MaxTreatments == 3

Slot(h, m, v) == [time |-> Time(h, m), value |-> v]

\* Sensitivity profiles as Nightscout stores them: slots in ascending time.
ISFProfiles ==
  { << Slot(0, 0, 1000) >>,
    << Slot(0, 0, 500), Slot(6, 0, 1000) >>,
    << Slot(6, 0, 500), Slot(12, 0, 1000) >>,
    << Slot(0, 0, 1000), Slot(5, 0, 400), Slot(5, 30, 800) >>,
    << Slot(0, 0, 80) >> }

Bolus(t, insulin, pre, g2h, g3h) ==
  [eventType |-> "Correction Bolus", t |-> t, insulin |-> insulin, carbs |-> 0,
   rate |-> 0, duration |-> 0, pre |-> pre, g2h |-> g2h, g3h |-> g3h]

Meal(t, insulin, carbs, pre, g2h, g3h) ==
  [eventType |-> "Meal Bolus", t |-> t, insulin |-> insulin, carbs |-> carbs,
   rate |-> 0, duration |-> 0, pre |-> pre, g2h |-> g2h, g3h |-> g3h]

TempBasal(t, rate, duration, pre, g2h, g3h) ==
  [eventType |-> "Temp Basal", t |-> t, insulin |-> 0, carbs |-> 0,
   rate |-> rate, duration |-> duration, pre |-> pre, g2h |-> g2h, g3h |-> g3h]

ISFTreatmentInputs ==
  { Bolus(10, 14, 150, 65, NoReading),
    Bolus(10, 10, 200, 110, NoReading),
    Bolus(340, 10, 200, 170, NoReading),
    Bolus(340, 10, 200, NoReading, 70),
    Bolus(340, 10, 200, NoReading, NoReading),
    Bolus(780, 5, 250, 60, NoReading),
    Bolus(780, 3, 250, 200, NoReading),
    Meal(330, 20, 20, 120, 160, 140),
    TempBasal(345, 200, 30, 180, 60, NoReading),
    TempBasal(100, 50, 30, NoReading, NoReading, NoReading) }

(***************************************************************************)
(* The ISF analysis run                                                    *)
(***************************************************************************)
InitISF ==
  /\ stage = "input"
  /\ treatments = <<>>
  /\ profileISF \in ISFProfiles
  /\ isfOut = EmptyBuckets
  /\ BasalIdle
  /\ ICRIdle
  /\ PCDIdle
  /\ CVIdle
  /\ RunIdle
  /\ HooksIdle

AddISFTreatment ==
  /\ stage = "input"
  /\ Len(treatments) < MaxTreatments
  /\ \E tr \in ISFTreatmentInputs : treatments' = Append(treatments, tr)
  /\ UNCHANGED <<stage, isfVars, basalVars, icrVars, pcdVars, cvVars, runVars, hookVars>>

RunAnalyzeHourlyISF ==
  /\ stage = "input"
  /\ isfOut' = analyzeHourlyISF(treatments, profileISF)
  /\ stage' = "done"
  /\ UNCHANGED <<treatments, profileISF, basalVars, icrVars, pcdVars, cvVars, runVars, hookVars>>

NextISF == AddISFTreatment \/ RunAnalyzeHourlyISF

SpecISF == InitISF /\ [][NextISF]_vars

\* every HourlyISFAdjustment of the result
ISFEmitted(out) ==
  {out.modifications[i] : i \in 1..Len(out.modifications)}
    \cup {out.newSlots[i] : i \in 1..Len(out.newSlots)}
    \cup {out.profileCompliant[i] : i \in 1..Len(out.profileCompliant)}

\* the corrections analyzeHourlyISF pools, as the code computes them
ISFAllCorrections ==
  LET hourlyISFMap == BuildHourlyISFMap(profileISF)
  IN  analyzeCorrectionBoluses(treatments, hourlyISFMap)
        \o analyzeTempBasalCorrections(treatments, hourlyISFMap)

HasHypoReading(c) ==
  \E g \in {c.preGlucose, c.glucoseAt2h, c.glucoseAt3h} : g # NoReading /\ g < 70

\* C1: every HourlyISFAdjustment analyzeHourlyISF emits (modifications, newSlots,
\* profileCompliant) has suggestedISF >= 10 and |adjustmentPct| <= 30.
C1_ISFWithinSafetyBounds ==
  stage = "done" =>
    \A a \in ISFEmitted(isfOut) : a.suggestedISF >= 100 /\ Abs(a.adjustmentPct) <= 30

\* C2: when a correction that contributes to a slot's recommendation (a clean
\* correction of one of the hours pooled into the slot's modification) has a
\* reading below 70, the recommendation never lowers the slot's ISF.
C2_HypoNeverLowersISF ==
  stage = "done" =>
    \A i \in 1..Len(isfOut.modifications) :
       LET m == isfOut.modifications[i]
           contributing ==
             SelectSeq(ISFAllCorrections,
               LAMBDA c : ~c.nearbyMeal
                          /\ \E k \in 1..Len(m.affectedHours) : m.affectedHours[k] = c.hour)
       IN  (\E k \in 1..Len(contributing) : HasHypoReading(contributing[k]))
             => m.suggestedISF >= m.currentISF

\* the candidates that ask for a change, as analyzeAllHoursForISF hands them
\* to the optimizer
ISFProblems ==
  SelectSeq(ISFCandidates(ISFAllCorrections, BuildHourlyISFMap(profileISF), profileISF),
            LAMBDA r : ~r.isProfileCompliant)

\* the ownership range of slot idx: [thisSlotStart, nextSlotStart), the last
\* slot's range running through midnight up to the first slot's start
OwnsTime(idx, tm) ==
  IF idx < Len(profileISF)
  THEN TimeGe(tm, profileISF[idx].time) /\ TimeLt(tm, profileISF[idx + 1].time)
  ELSE TimeGe(tm, profileISF[idx].time) \/ TimeLt(tm, profileISF[1].time)

\* C13: every existing ISF slot into whose ownership range no candidate falls
\* is reported in profileCompliant with suggestedISF = currentISF,
\* adjustmentPct 0 and confidence 1.0, also when there is no candidate at all.
C13_UntouchedSlotIsCompliant ==
  stage = "done" =>
    \A idx \in 1..Len(profileISF) :
      (\A k \in 1..Len(ISFProblems) : ~OwnsTime(idx, ISFProblems[k].time))
        => \E i \in 1..Len(isfOut.profileCompliant) :
             LET c == isfOut.profileCompliant[i]
             IN  /\ c.time = profileISF[idx].time
                 /\ c.currentISF = profileISF[idx].value
                 /\ c.suggestedISF = profileISF[idx].value
                 /\ c.adjustmentPct = 0
                 /\ c.confidence = 100

\* C14: a candidate whose time is earlier than the first slot's start is
\* pooled into the last slot, which becomes a modification, and is not
\* emitted as a new-slot suggestion.
C14_OwnershipWrapsAtMidnight ==
  stage = "done" =>
    \A k \in 1..Len(ISFProblems) :
      TimeLt(ISFProblems[k].time, profileISF[1].time)
        => /\ \A i \in 1..Len(isfOut.newSlots) :
                isfOut.newSlots[i].time # ISFProblems[k].time
           /\ \E i \in 1..Len(isfOut.modifications) :
                /\ isfOut.modifications[i].time = profileISF[Len(profileISF)].time
                /\ \E j \in 1..Len(isfOut.modifications[i].affectedHours) :
                     isfOut.modifications[i].affectedHours[j] = ISFProblems[k].hour

\* the time of day HH:MM at which an analysed correction was given
CorrectionTime(c) == Time(HourOf(c.timestamp), MinuteOfInstant(c.timestamp))

\* the analysed corrections that are not near a meal
ISFCleanCorrections == SelectSeq(ISFAllCorrections, LAMBDA c : ~c.nearbyMeal)

\* C24: corrections are analysed at minute granularity: every candidate
\* handed to the optimizer stands at the time of day HH:MM of a correction,
\* and a slot is modified only on corrections given inside its range
\* [start, nextStart) (with slots 05:00 and 05:30, a correction at 05:40
\* counts for the 05:30 slot, not the 05:00 slot).
C24_MinuteGranularity ==
  stage = "done" =>
    LET candidates == ISFCandidates(ISFAllCorrections, BuildHourlyISFMap(profileISF),
                                    profileISF)
    IN  /\ \A k \in 1..Len(candidates) :
             \E j \in 1..Len(ISFCleanCorrections) :
                CorrectionTime(ISFCleanCorrections[j]) = candidates[k].time
        /\ \A i \in 1..Len(isfOut.modifications) : \A idx \in 1..Len(profileISF) :
             isfOut.modifications[i].time = profileISF[idx].time
               => \E j \in 1..Len(ISFCleanCorrections) :
                    OwnsTime(idx, CorrectionTime(ISFCleanCorrections[j]))

\* C25: for every analysed correction, bolus or temp basal, the currentISF
\* behind its expectedDrop and efficiency is the value of the slot that owns
\* the correction's time of day ([start, nextStart), the last slot's range
\* wrapping through midnight), whatever the slot list.
C25_CurrentISFIsOwningSlot ==
  stage = "done" =>
    \A j \in 1..Len(ISFAllCorrections) : \A idx \in 1..Len(profileISF) :
      OwnsTime(idx, CorrectionTime(ISFAllCorrections[j]))
        => ISFAllCorrections[j].currentISF = profileISF[idx].value

\* how many records of modifications and profileCompliant stand for slot idx
ISFSlotAppearances(idx) ==
  Cardinality({ i \in 1..Len(isfOut.modifications) :
                  isfOut.modifications[i].time = profileISF[idx].time })
    + Cardinality({ i \in 1..Len(isfOut.profileCompliant) :
                      isfOut.profileCompliant[i].time = profileISF[idx].time })

\* C26: the three buckets partition the findings: every existing slot appears
\* exactly once across modifications and profileCompliant, and no newSlots
\* entry has a time inside an existing slot's ownership range.
C26_BucketsPartitionSlots ==
  stage = "done" =>
    /\ \A idx \in 1..Len(profileISF) : ISFSlotAppearances(idx) = 1
    /\ \A i \in 1..Len(isfOut.newSlots) : \A idx \in 1..Len(profileISF) :
         ~OwnsTime(idx, isfOut.newSlots[i].time)

\* the bolus corrections analyzeHourlyISF analyses, as the code computes them
ISFBolusCorrections == analyzeCorrectionBoluses(treatments, BuildHourlyISFMap(profileISF))

\* C16: a treatment is analysed as a correction bolus exactly when
\* 0.3 U <= insulin < 1.5 U, carbs = 0 and preGlucose >= 150, a bolus of
\* exactly 0.3 U included.
C16_CorrectionBolusSelection ==
  stage = "done" =>
    \A i \in 1..Len(treatments) :
      LET t == treatments[i]
          selected == /\ t.insulin >= 3 /\ t.insulin < 15
                      /\ t.carbs = 0
                      /\ t.pre # NoReading /\ t.pre >= 150
          analysed == \E k \in 1..Len(ISFBolusCorrections) :
                        LET a == ISFBolusCorrections[k]
                        IN  /\ a.hour = HourOf(t.t)
                            /\ a.correctionInsulin = Rat(t.insulin, 10)
                            /\ a.preGlucose = t.pre
                            /\ a.glucoseAt2h = t.g2h
                            /\ a.glucoseAt3h = t.g3h
      IN  selected <=> analysed

(***************************************************************************)
(* The basal analysis run: hourlyAverage, computeBasalAdjustments,         *)
(* suggestBasalChanges and expandTo24Hours on one set of inputs            *)
(***************************************************************************)
MaxEntries == 3

MaxNightPrefix == 2

Entry(t, sgv) == [t |-> t, sgv |-> sgv]

EntryInputs ==
  { Entry(190, 150), Entry(200, 130), Entry(190, NoReading),
    Entry(800, 120), Entry(800, 300), Entry(800, 60) }

\* One night of CGM history: a reading every 5 minutes from 22:00 of day 1.
CgmNight == [i \in 1..100 |-> Entry(2760 + 5 * (i - 1), 150 + 10 * (i % 4))]

\* The same night running low and swinging by 40 mg/dL between readings, the
\* hourly mean rising from 60 at 22:00 to 100 at 06:00.
CgmLowNight ==
  [i \in 1..100 |-> Entry(2760 + 5 * (i - 1), 40 + 5 * ((i - 1) \div 12) + 40 * (i % 2))]

CgmNights == { CgmNight, CgmLowNight }

BasalProfiles ==
  { <<>>,
    << Slot(0, 0, 500), Slot(6, 0, 850), Slot(6, 30, 700) >>,
    << Slot(3, 0, 530), Slot(13, 0, 1200) >> }

\* no insulin, a 3 U bolus at 23:00 of day 1, a 1 U bolus at 23:00 of day 1
InsulinInputs ==
  { <<>>,
    << Bolus(2820, 30, NoReading, NoReading, NoReading) >>,
    << Bolus(2820, 10, NoReading, NoReading, NoReading) >> }

InitBasal ==
  /\ stage = "input"
  /\ treatments \in InsulinInputs
  /\ entries = <<>>
  /\ basalProfile \in BasalProfiles
  /\ hourlyAvg = <<>>
  /\ basalAdj = <<>>
  /\ basalExpanded = <<>>
  /\ basalChange = <<>>
  /\ ISFIdle
  /\ ICRIdle
  /\ PCDIdle
  /\ CVIdle
  /\ RunIdle
  /\ HooksIdle

\* the night is loaded after at most MaxNightPrefix - 1 single entries
LoadCgmNight ==
  /\ stage = "input"
  /\ Len(entries) < MaxNightPrefix
  /\ \E night \in CgmNights : entries' = entries \o night
  /\ UNCHANGED <<stage, treatments, isfVars, basalProfile, hourlyAvg, basalAdj,
                 basalExpanded, basalChange, icrVars, pcdVars, cvVars, runVars, hookVars>>

AddEntry ==
  /\ stage = "input"
  /\ Len(entries) < MaxEntries
  /\ \E e \in EntryInputs : entries' = Append(entries, e)
  /\ UNCHANGED <<stage, treatments, isfVars, basalProfile, hourlyAvg, basalAdj,
                 basalExpanded, basalChange, icrVars, pcdVars, cvVars, runVars, hookVars>>

RunBasalAnalysis ==
  /\ stage = "input"
  /\ hourlyAvg' = hourlyAverage(entries)
  /\ basalAdj' = computeBasalAdjustments(hourlyAvg', entries, treatments, DefaultTarget)
  /\ basalChange' = suggestBasalChanges(basalProfile, hourlyAvg')
  /\ basalExpanded' = expandTo24Hours(basalProfile)
  /\ stage' = "done"
  /\ UNCHANGED <<treatments, isfVars, entries, basalProfile, icrVars, pcdVars, cvVars, runVars, hookVars>>

NextBasal == LoadCgmNight \/ AddEntry \/ RunBasalAnalysis

SpecBasal == InitBasal /\ [][NextBasal]_vars

\* the indexes of the entries of hour-of-day h that carry a glucose value
ValuedInHour(h) ==
  { i \in 1..Len(entries) : entries[i].sgv # NoReading /\ HourOf(entries[i].t) = h }

RECURSIVE SumOfValues(_)
SumOfValues(S) ==
  IF S = {} THEN 0
  ELSE LET i == CHOOSE x \in S : TRUE
       IN  entries[i].sgv + SumOfValues(S \ {i})

\* C3: index h of hourlyAverage is the arithmetic mean of the values of
\* exactly the entries whose hour-of-day is h, and null when no entry of that
\* hour carries a value; with no entries at all the result is 24 nulls.
C3_HourlyAverageIsMean ==
  stage = "done" =>
    /\ Len(hourlyAvg) = 24
    /\ \A h \in Hours :
         LET S == ValuedInHour(h)
             avg == hourlyAvg[h + 1]
         IN  IF S = {} THEN avg = Null
             ELSE /\ avg # Null
                  /\ avg[2] > 0
                  /\ avg[1] * Cardinality(S) = SumOfValues(S) * avg[2]

\* the spec's example: 150 and 130 in hour 3 average to 140, beside an entry
\* of the same hour that carries no value
C3_Witness ==
  /\ stage = "done"
  /\ ValuedInHour(3) = {1, 2}
  /\ Len(entries) = 3
  /\ entries[3].sgv = NoReading
  /\ HourOf(entries[3].t) = 3
  /\ SumOfValues({1, 2}) = 280
  /\ hourlyAvg[4] = Rat(140, 1)
  /\ \A h \in Hours \ {3} : hourlyAvg[h + 1] = Null

C5_SimpleModeFormula ==
  (stage = "done" /\ Len(entries) < DetailedModeThreshold) =>
    \A h \in Hours :
      LET avg == hourlyAvg[h + 1]
          r   == basalAdj[h + 1]
      IN  IF avg = Null THEN r = 0
          ELSE LET d     == avg[2]
                   delta == avg[1] - DefaultTarget * d
                   IsRound(k) == /\ (2 * k - 1) * 15 * d <= 2 * delta
                                 /\ 2 * delta < (2 * k + 1) * 15 * d
               IN  /\ delta > 20 * d =>
                        \E k \in 0..20 : IsRound(k) /\ r = Min(5 * k, 30)
                   /\ delta < -20 * d =>
                        \E k \in -20..0 : IsRound(k) /\ r = Max(5 * k, -30)
                   /\ (delta <= 20 * d /\ delta >= -20 * d) => r = 0
                   /\ avg = Rat(140, 1) => r = 15

\* an average of 140 in hour 3 (adjusted by 15) beside an average of exactly
\* 120 in hour 13 (left alone)
C5_Witness ==
  /\ stage = "done"
  /\ Len(entries) < DetailedModeThreshold
  /\ hourlyAvg[4] = Rat(140, 1)
  /\ basalAdj[4] = 15
  /\ hourlyAvg[14] = Rat(120, 1)
  /\ basalAdj[14] = 0

\* the value a slot list holds at hh:00: that of the last slot that has
\* started by then and, before the first slot of the day, that of the last slot
SlotValueInForce(slots, h) ==
  LET started == { k \in 1..Len(slots) : TimeGe(Time(h, 0), slots[k].time) }
  IN  IF started = {} THEN slots[Len(slots)].value
      ELSE slots[CHOOSE k \in started : \A j \in started : j <= k].value

\* C11: in the 24-hour expansion of a profile every hour takes the value of
\* the last slot whose start time is <= that hour, and the hours before the
\* first slot's start take the value of the last slot of the day, both in
\* expandTo24Hours and in the full profile of suggestBasalChanges.
C11_ExpansionWrapsAround ==
  (stage = "done" /\ basalProfile # <<>>) =>
    \A h \in Hours :
      /\ basalExpanded[h + 1].value = SlotValueInForce(basalProfile, h)
      /\ basalChange[h + 1].oldValue = Rat(SlotValueInForce(basalProfile, h), 1000)

\* the tiered base adjustment of a period: 0 below 3 values or when a value is
\* missing (the mean is then NaN and no tier's comparison holds)
TieredBase(period) ==
  IF Len(period.values) < 3 \/ (\E i \in 1..Len(period.values) : period.values[i] = NoReading)
  THEN 0
  ELSE BaseBasalAdjustment(RSub(Rat(SumSeq(period.values), Len(period.values)),
                                RInt(DefaultTarget)))

\* C22: in detailed mode the final integer percentage of every hour lies in
\* [-30, 30], has the sign of the tiered base adjustment or is zero, and never
\* exceeds the base adjustment in magnitude.
C22_FinalWithinBase ==
  (stage = "done" /\ Len(entries) >= DetailedModeThreshold) =>
    \A h \in Hours :
      LET base == TieredBase(analyzeBasalPeriods(entries, treatments)[h + 1])
          r    == basalAdj[h + 1]
      IN  /\ r \in -30..30
          /\ base >= 0 => (0 <= r /\ r <= base)
          /\ base <= 0 => (base <= r /\ r <= 0)

\* a low night after a bolus: hours reduced below a negative base, next to an
\* hour in range that is left alone
C22_Witness ==
  /\ stage = "done" /\ Len(entries) >= DetailedModeThreshold
  /\ treatments # <<>>
  /\ \E h \in Hours :
       LET base == TieredBase(analyzeBasalPeriods(entries, treatments)[h + 1])
       IN  base < 0 /\ base < basalAdj[h + 1] /\ basalAdj[h + 1] < 0
  /\ \E h \in Hours :
       /\ Len(analyzeBasalPeriods(entries, treatments)[h + 1].values) >= 3
       /\ TieredBase(analyzeBasalPeriods(entries, treatments)[h + 1]) = 0
       /\ basalAdj[h + 1] = 0

\* C28: the fallback insulin filter relaxes the primary one: every reading
\* the dose-scaled window of filterInsulinActivity accepts for its hour is
\* accepted by the "no insulin within the last 2 hours" filter as well, so
\* the fallback keeps at least as many readings of an hour as the primary.
C28_FallbackRelaxesPrimary ==
  (stage = "done" /\ Len(entries) >= DetailedModeThreshold) =>
    \A h \in Hours :
      LET hourEntries == SelectSeq(entries, LAMBDA e : HourOf(e.t) = h)
          primary     == filterInsulinActivity(hourEntries, treatments, h)
          fallback    == SelectSeq(hourEntries,
                                   LAMBDA e : ~HasVeryRecentInsulin(e, treatments))
      IN  /\ \A i \in 1..Len(hourEntries) :
               ~HasRecentInsulin(hourEntries[i], treatments, h)
                 => ~HasVeryRecentInsulin(hourEntries[i], treatments)
          /\ Len(fallback) >= Len(primary)

\* C29: for every hour, suggestBasalChanges moves the basal rate by at most
\* maxDelta (0.05 U/h) once newValue is rounded to the basal step, and
\* newValue is never negative.
C29_StepWithinMaxDelta ==
  stage = "done" =>
    \A h \in Hours :
      /\ RLe(RAbs(RSub(basalChange[h + 1].newValue, basalChange[h + 1].oldValue)),
             DefaultMaxDelta)
      /\ RLe(RInt(0), basalChange[h + 1].newValue)

\* the readings of hour-of-day h, by index
ReadingsOfHour(h) == { i \in 1..Len(entries) : HourOf(entries[i].t) = h }

\* reading i of hour h lies outside the dose-scaled exclusion window (2.5 h
\* below 2 U, 3 h below 4 U, else 3.5 h; three quarters of it for the hours
\* 22..6) of every dose of at least 0.5 U
PassesPrimaryFilter(i, h) ==
  \A k \in 1..Len(treatments) :
    LET dose == treatments[k].insulin
        diff == entries[i].t - treatments[k].t
        window == IF dose < 20 THEN 150 ELSE IF dose < 40 THEN 180 ELSE 210
    IN  dose >= 5 =>
          ~(diff > 0 /\ 4 * diff < (IF h >= 22 \/ h <= 6 THEN 3 ELSE 4) * window)

\* no dose of at least 0.5 U within the 2 hours before reading i
PassesFallbackFilter(i) ==
  \A k \in 1..Len(treatments) :
    LET diff == entries[i].t - treatments[k].t
    IN  treatments[k].insulin >= 5 => ~(diff > 0 /\ diff < 120)

\* the readings of hour h that are usable after the insulin-activity
\* filtering: the clean ones, or with fewer than 3 clean readings among at
\* least 10 those the fallback filter keeps
UsableReadings(h) ==
  LET all   == ReadingsOfHour(h)
      clean == { i \in all : PassesPrimaryFilter(i, h) }
  IN  IF Cardinality(clean) < 3 /\ Cardinality(all) >= 10
      THEN { i \in all : PassesFallbackFilter(i) }
      ELSE clean

\* the periods the detailed mode analyses, as the code computes them
BasalPeriods == analyzeBasalPeriods(entries, treatments)

\* C21: in detailed mode an hour with fewer than 3 usable readings after the
\* insulin-activity filtering (the 2-hour fallback included) has adjustment 0
\* and confidence 0, whatever its raw hourly average and its neighbours are.
C21_FewReadingsNoAdjustment ==
  (stage = "done" /\ Len(entries) >= DetailedModeThreshold) =>
    \A h \in Hours :
      Cardinality(UsableReadings(h)) < 3
        => /\ basalAdj[h + 1] = 0
           /\ BasalPeriods[h + 1].confidence = RInt(0)
           /\ BasalPeriods[h + 1].values = <<>>

\* after a bolus at 23:00 no reading of the hours 23 and 0 is usable, although
\* their raw averages lie 65 above target and hour 1 is adjusted
C21_Witness ==
  /\ stage = "done"
  /\ Len(entries) >= DetailedModeThreshold
  /\ Cardinality(ReadingsOfHour(23)) >= 10
  /\ Cardinality(UsableReadings(23)) < 3
  /\ UsableReadings(0) = {}
  /\ hourlyAvg[24] = Rat(165, 1)
  /\ basalAdj[24] = 0
  /\ basalAdj[1] = 0
  /\ basalAdj[2] # 0

(***************************************************************************)
(* The ICR analysis run: analyzeHourlyICR on a glucose trace, a carb ratio *)
(* profile and the meals entered                                           *)
(***************************************************************************)
MealEvent(t, carbs, insulin) == [t |-> t, carbs |-> carbs, insulin |-> insulin]

\* meals at 06:00, 06:30, 01:00 and 13:00, a bolus without carbs and a snack
\* below the meal threshold
ICRTreatmentInputs ==
  { MealEvent(360, 40, 40), MealEvent(390, 40, 40), MealEvent(60, 30, 0),
    MealEvent(780, 20, 20), MealEvent(780, 0, 15), MealEvent(790, 4, 0) }

\* A trace on which the 06:00 meal overshoots and the 06:30 meal does not,
\* one on which both stay in range, one on which both end far above range,
\* and no readings at all.
ICRTraces ==
  { <<>>,
    << Entry(30, 100), Entry(120, 220), Entry(185, 180), Entry(335, 110),
       Entry(365, 120), Entry(375, 250), Entry(450, 150), Entry(485, 170),
       Entry(515, 130) >>,
    << Entry(335, 100), Entry(365, 105), Entry(450, 150), Entry(485, 120),
       Entry(515, 110) >>,
    << Entry(335, 150), Entry(365, 160), Entry(375, 400), Entry(450, 380),
       Entry(485, 300), Entry(515, 300) >> }

\* Carb ratio profiles as Nightscout stores them: slots in ascending time.
ICRProfiles ==
  { <<>>,
    << Slot(0, 0, 100) >>,
    << Slot(0, 0, 100), Slot(6, 0, 80), Slot(12, 0, 120) >>,
    << Slot(6, 0, 100), Slot(6, 30, 80) >> }

InitICR ==
  /\ stage = "input"
  /\ treatments = <<>>
  /\ entries \in ICRTraces
  /\ profileICR \in ICRProfiles
  /\ icrMeals = <<>>
  /\ icrGroups = <<>>
  /\ icrAdjustments = <<>>
  /\ icrOut = EmptyBuckets
  /\ basalProfile = <<>>
  /\ hourlyAvg = <<>>
  /\ basalAdj = <<>>
  /\ basalExpanded = <<>>
  /\ basalChange = <<>>
  /\ ISFIdle
  /\ PCDIdle
  /\ CVIdle
  /\ RunIdle
  /\ HooksIdle

AddMeal ==
  /\ stage = "input"
  /\ Len(treatments) < MaxTreatments
  /\ \E meal \in ICRTreatmentInputs : treatments' = Append(treatments, meal)
  /\ UNCHANGED <<stage, isfVars, basalVars, icrVars, pcdVars, cvVars, runVars, hookVars>>

RunAnalyzeHourlyICR ==
  /\ stage = "input"
  /\ icrMeals' = IF Len(profileICR) = 0 THEN <<>>
                 ELSE analyzeMealsWithHours(entries, treatments,
                                            expandICRTo24Hours(profileICR))
  /\ icrGroups' = IF Len(profileICR) = 0 THEN <<>>
                  ELSE ICRMealsForSlots(icrMeals', profileICR)
  /\ icrAdjustments' = IF Len(profileICR) = 0 THEN <<>>
                       ELSE ICRAdjustments(icrGroups', profileICR)
  /\ icrOut' = analyzeHourlyICR(entries, treatments, profileICR)
  /\ stage' = "done"
  /\ UNCHANGED <<treatments, isfVars, basalVars, profileICR, pcdVars, cvVars, runVars, hookVars>>

NextICR == AddMeal \/ RunAnalyzeHourlyICR

SpecICR == InitICR /\ [][NextICR]_vars

\* the records analyzeHourlyICR emits for the slot of index i
ICREmittedFor(i) ==
  LET all == icrOut.modifications \o icrOut.newSlots \o icrOut.profileCompliant
  IN  { all[k] : k \in { k \in 1..Len(all) :
                           /\ all[k].hour = SlotHour(profileICR[i])
                           /\ all[k].currentICR = Rat(profileICR[i].value, 10) } }

\* C6: a carb ratio slot with exactly one attributed meal keeps its ICR:
\* confidence 0, adjustmentPct 0 and suggestedICR = currentICR, both in the
\* adjustment computed for the slot and in the record emitted for it.
C6_SingleMealSlotUnchanged ==
  stage = "done" =>
    \A i \in 1..Len(icrGroups) :
      Len(icrGroups[i]) = 1 =>
        /\ icrAdjustments[i].confidence = RInt(0)
        /\ icrAdjustments[i].adjustmentPct = RInt(0)
        /\ icrAdjustments[i].suggestedICR = icrAdjustments[i].currentICR
        /\ ICREmittedFor(i) # {}
        /\ \A r \in ICREmittedFor(i) :
             /\ r.confidence = RInt(0)
             /\ r.adjustmentPct = RInt(0)
             /\ r.suggestedICR = Rat(profileICR[i].value, 10)
             /\ r.isProfileCompliant

\* a slot whose only meal has complete glucose data and overshot its targets
C6_Witness ==
  /\ stage = "done"
  /\ \E i \in 1..Len(icrGroups) :
       /\ Len(icrGroups[i]) = 1
       /\ IsValidMeal(icrGroups[i][1])
       /\ ~icrGroups[i][1].success
       /\ icrGroups[i][1].peakGlucose = 250
       /\ ICREmittedFor(i) # {}

\* C7: a carb ratio slot with fewer than 2 valid meals (preGlucose,
\* peakGlucose and glucoseAt2h all present) has adjustmentPct 0 and
\* confidence 0, however many meals without complete glucose data are
\* attributed to it as well.
C7_FewValidMealsNoChange ==
  stage = "done" =>
    \A i \in 1..Len(icrGroups) :
      Len(SelectSeq(icrGroups[i], IsValidMeal)) < 2 =>
        /\ icrAdjustments[i].adjustmentPct = RInt(0)
        /\ icrAdjustments[i].confidence = RInt(0)
        /\ \A r \in ICREmittedFor(i) :
             r.adjustmentPct = RInt(0) /\ r.confidence = RInt(0)

\* C8 (meal grouping): a meal whose time of day equals the start time of a
\* carb ratio slot is attributed to that slot and not to the slot before it.
C8_MealAtSlotStart ==
  stage = "done" =>
    \A i \in 1..Len(icrGroups) : \A k \in 1..Len(icrMeals) :
      LET meal == icrMeals[k]
          at   == Time(HourOf(meal.timestamp), MinuteOfInstant(meal.timestamp))
      IN  at = profileICR[i].time =>
            /\ \E j \in 1..Len(icrGroups[i]) : icrGroups[i][j] = meal
            /\ i > 1 => \A j \in 1..Len(icrGroups[i - 1]) : icrGroups[i - 1][j] # meal

\* the carb ratio slot in force at a time of day: the one with the largest
\* start time <= at and, before the first start of the day, the last slot
ICRSlotInForce(at) ==
  LET started == { i \in 1..Len(profileICR) : TimeGe(at, profileICR[i].time) }
  IN  IF started = {} THEN Len(profileICR)
      ELSE CHOOSE i \in started : \A j \in started : TimeGe(profileICR[i].time, profileICR[j].time)

\* C23: every analysed meal is attributed to exactly one carb ratio slot, the
\* one with the largest start time <= the meal's time of day (the last slot
\* for a meal before the first slot's start), also when slots do not start on
\* the hour or two slots start within the same hour.
C23_MealOwnedByOneSlot ==
  (stage = "done" /\ profileICR # <<>>) =>
    \A k \in 1..Len(icrMeals) :
      LET meal  == icrMeals[k]
          at    == Time(HourOf(meal.timestamp), MinuteOfInstant(meal.timestamp))
          owner == ICRSlotInForce(at)
      IN  \A i \in 1..Len(icrGroups) :
            (\E j \in 1..Len(icrGroups[i]) : icrGroups[i][j] = meal) <=> i = owner

\* every record of the result of analyzeHourlyICR, in bucket order
ICREmitted == icrOut.modifications \o icrOut.newSlots \o icrOut.profileCompliant

\* C27: the ICR analyzer never suggests less insulin: every adjustment it
\* computes for a slot and every record it returns has
\* 0 <= adjustmentPct <= 20 and suggestedICR <= currentICR, so the relative
\* ICR change (suggestedICR - currentICR) / currentICR is never positive.
C27_ICRNeverRaised ==
  stage = "done" =>
    /\ \A i \in 1..Len(icrAdjustments) :
         /\ RLe(RInt(0), icrAdjustments[i].adjustmentPct)
         /\ RLe(icrAdjustments[i].adjustmentPct, RInt(20))
         /\ RLe(icrAdjustments[i].suggestedICR, icrAdjustments[i].currentICR)
    /\ \A k \in 1..Len(ICREmitted) :
         /\ RLe(RInt(0), ICREmitted[k].adjustmentPct)
         /\ RLe(ICREmitted[k].adjustmentPct, RInt(20))
         /\ RLe(ICREmitted[k].suggestedICR, ICREmitted[k].currentICR)
         /\ RLe(RDiv(RSub(ICREmitted[k].suggestedICR, ICREmitted[k].currentICR),
                     ICREmitted[k].currentICR), RInt(0))

\* a slot whose two meals end far above range: the adjustment is held at the
\* 20 % cap and the ICR of 10 lowered to 8
C27_Witness ==
  /\ stage = "done"
  /\ \E k \in 1..Len(icrOut.modifications) :
       /\ icrOut.modifications[k].adjustmentPct = RInt(20)
       /\ icrOut.modifications[k].currentICR = RInt(10)
       /\ icrOut.modifications[k].suggestedICR = RInt(8)
       /\ icrOut.modifications[k].mealCount >= 2

\* C15: a treatment is analysed as a meal if and only if carbs > 5 g, or
\* insulin > 0 and carbs > 0, or insulin > 1 U and carbs >= 0; a bolus of more
\* than 1 U with no carbs is among the meals used for the ICR analysis.
C15_MealIdentification ==
  (stage = "done" /\ profileICR # <<>>) =>
    \A i \in 1..Len(treatments) :
      LET t == treatments[i]
          isMeal == \/ t.carbs > 5
                    \/ (t.insulin > 0 /\ t.carbs > 0)
                    \/ (t.insulin > 10 /\ t.carbs >= 0)
          analysed == \E k \in 1..Len(icrMeals) :
                        /\ icrMeals[k].timestamp = t.t
                        /\ icrMeals[k].carbs = t.carbs
                        /\ icrMeals[k].insulin = t.insulin
      IN  isMeal <=> analysed


(***************************************************************************)
(* The profile change detection run: detectChanges on a profile history    *)
(***************************************************************************)
MaxSnapshots == 3

\* new Date() of detectChanges: noon of day 10
PcdNow == 10 * 1440 + 720

Snapshot(day, basal, carbRatio, sensitivity) ==
  [startDate |-> day * 1440 + 480, basal |-> basal, carbRatio |-> carbRatio,
   sensitivity |-> sensitivity]

\* A profile, the same with one basal value, one carb ratio value or one
\* sensitivity value edited, with two fields edited, with a basal slot
\* removed and with the basal slots stored in another order.
SnapshotProfiles ==
  { << << Slot(0, 0, 500), Slot(6, 0, 700) >>, << Slot(0, 0, 100) >>, << Slot(0, 0, 500) >> >>,
    << << Slot(0, 0, 500), Slot(6, 0, 750) >>, << Slot(0, 0, 100) >>, << Slot(0, 0, 500) >> >>,
    << << Slot(0, 0, 500), Slot(6, 0, 700) >>, << Slot(0, 0, 90) >>, << Slot(0, 0, 500) >> >>,
    << << Slot(0, 0, 500), Slot(6, 0, 700) >>, << Slot(0, 0, 100) >>, << Slot(0, 0, 450) >> >>,
    << << Slot(0, 0, 500), Slot(6, 0, 750) >>, << Slot(0, 0, 90) >>, << Slot(0, 0, 500) >> >>,
    << << Slot(0, 0, 500) >>, << Slot(0, 0, 100) >>, << Slot(0, 0, 500) >> >>,
    << << Slot(6, 0, 700), Slot(0, 0, 500) >>, << Slot(0, 0, 100) >>, << Slot(0, 0, 500) >> >> }

SnapshotDays == 8..10

InitPCD ==
  /\ stage = "input"
  /\ treatments = <<>>
  /\ profileHistory = <<>>
  /\ pcdDays \in {0, 1}
  /\ pcdOut = <<>>
  /\ ISFIdle
  /\ BasalIdle
  /\ ICRIdle
  /\ CVIdle
  /\ RunIdle
  /\ HooksIdle

\* the history is ordered by start date
AddSnapshot ==
  /\ stage = "input"
  /\ Len(profileHistory) < MaxSnapshots
  /\ \E day \in SnapshotDays, p \in SnapshotProfiles :
       /\ profileHistory # <<>> => DayOf(profileHistory[Len(profileHistory)]) <= day
       /\ profileHistory' = Append(profileHistory, Snapshot(day, p[1], p[2], p[3]))
  /\ UNCHANGED <<stage, treatments, isfVars, basalVars, icrVars, pcdDays, pcdOut, cvVars, runVars, hookVars>>

RunDetectChanges ==
  /\ stage = "input"
  /\ pcdOut' = detectChanges(profileHistory, pcdDays, PcdNow)
  /\ stage' = "done"
  /\ UNCHANGED <<treatments, isfVars, basalVars, icrVars, profileHistory, pcdDays, cvVars, runVars, hookVars>>

NextPCD == AddSnapshot \/ RunDetectChanges

SpecPCD == InitPCD /\ [][NextPCD]_vars

HistoryDays == { DayOf(profileHistory[i]) : i \in 1..Len(profileHistory) }

\* the last snapshot of a day
ActiveSnapshot(day) ==
  profileHistory[CHOOSE i \in 1..Len(profileHistory) :
                   /\ DayOf(profileHistory[i]) = day
                   /\ \A j \in (i + 1)..Len(profileHistory) : DayOf(profileHistory[j]) # day]

\* pairs of days of the history with no day of the history between them
ConsecutiveDays ==
  { pair \in HistoryDays \X HistoryDays :
      /\ pair[1] < pair[2]
      /\ \A d \in HistoryDays : ~(pair[1] < d /\ d < pair[2]) }

InLookback(day) == pcdDays = 0 \/ PcdNow - day * 1440 <= pcdDays * 1440

ChangeRecordsOf(day) == { k \in 1..Len(pcdOut) : pcdOut[k].day = day }

\* the slot arrays differ in the value of exactly one slot and nothing else
OneValueEdited(a, b) ==
  /\ Len(a) = Len(b)
  /\ \A i \in 1..Len(a) : a[i].time = b[i].time
  /\ Cardinality({ i \in 1..Len(a) : a[i].value # b[i].value }) = 1

\* C9: for the active snapshots of two consecutive days, the later one in
\* the lookback window, identical basal, carbRatio and sensitivity arrays
\* give no change record for that day, and a difference in exactly one slot
\* value of exactly one field gives exactly one record, typed with it.
C9_ChangeRecordsPerEdit ==
  stage = "done" =>
    \A pair \in ConsecutiveDays :
      InLookback(pair[2]) =>
        LET prev == ActiveSnapshot(pair[1])
            curr == ActiveSnapshot(pair[2])
            recs == ChangeRecordsOf(pair[2])
        IN  /\ (/\ prev.basal = curr.basal
                /\ prev.carbRatio = curr.carbRatio
                /\ prev.sensitivity = curr.sensitivity) => recs = {}
            /\ (/\ OneValueEdited(prev.basal, curr.basal)
                /\ prev.carbRatio = curr.carbRatio
                /\ prev.sensitivity = curr.sensitivity)
               => Cardinality(recs) = 1 /\ \A k \in recs : pcdOut[k].type = "basal"
            /\ (/\ prev.basal = curr.basal
                /\ OneValueEdited(prev.carbRatio, curr.carbRatio)
                /\ prev.sensitivity = curr.sensitivity)
               => Cardinality(recs) = 1 /\ \A k \in recs : pcdOut[k].type = "icr"
            /\ (/\ prev.basal = curr.basal
                /\ prev.carbRatio = curr.carbRatio
                /\ OneValueEdited(prev.sensitivity, curr.sensitivity))
               => Cardinality(recs) = 1 /\ \A k \in recs : pcdOut[k].type = "isf"

\* a lookback of one day, two snapshots on day 9 of which the later one is
\* active, and one carb ratio value edited on day 10
C9_Witness ==
  /\ stage = "done"
  /\ pcdDays = 1
  /\ Len(profileHistory) = 3
  /\ HistoryDays = {9, 10}
  /\ profileHistory[1] # profileHistory[2]
  /\ profileHistory[2].basal = profileHistory[3].basal
  /\ OneValueEdited(profileHistory[2].carbRatio, profileHistory[3].carbRatio)
  /\ profileHistory[2].sensitivity = profileHistory[3].sensitivity
  /\ Len(pcdOut) = 1
  /\ pcdOut[1].type = "icr"
  /\ pcdOut[1].day = 10

\* the (start time, value) pairs of a slot array
SlotPairs(a) == { <<a[i].time, a[i].value>> : i \in 1..Len(a) }

\* the slot arrays hold the same slots when matched by start time
SameSlotsByTime(a, b) == Len(a) = Len(b) /\ SlotPairs(a) = SlotPairs(b)

\* C17: slots are matched by start time: for the active snapshots of two
\* consecutive days, a field whose arrays hold the same (start time, value)
\* pairs gives no change record of that field whatever the order of the
\* arrays, and a value or slot-count difference gives one.
C17_SlotsMatchedByStartTime ==
  stage = "done" =>
    \A pair \in ConsecutiveDays :
      InLookback(pair[2]) =>
        LET prev == ActiveSnapshot(pair[1])
            curr == ActiveSnapshot(pair[2])
            Recorded(type) == \E k \in ChangeRecordsOf(pair[2]) : pcdOut[k].type = type
        IN  /\ SameSlotsByTime(prev.basal, curr.basal) <=> ~Recorded("basal")
            /\ SameSlotsByTime(prev.carbRatio, curr.carbRatio) <=> ~Recorded("icr")
            /\ SameSlotsByTime(prev.sensitivity, curr.sensitivity) <=> ~Recorded("isf")

(***************************************************************************)
(* The cross-validation run: validateProfileRecommendations on basal       *)
(* adjustments, ICR adjustments and glucose entries                        *)
(***************************************************************************)
MaxICRAdjustments == 2

\* basal adjustments in percent for the hours 3, 8 and 15, 0 elsewhere
BasalAt(h3, h8, h15) ==
  [i \in 1..24 |-> IF i = 4 THEN h3 ELSE IF i = 9 THEN h8 ELSE IF i = 16 THEN h15 ELSE 0]

CVBasalInputs == { BasalAt(0, 0, 0), BasalAt(-20, -10, -6), BasalAt(20, -5, 10) }

\* readings in the hours 3, 8 and 15
GlucoseAt(g3, g8, g15) == << Entry(200, g3), Entry(500, g8), Entry(505, g8), Entry(920, g15) >>

CVEntryInputs ==
  { <<>>, GlucoseAt(160, 160, 150), GlucoseAt(141, 140, 139), GlucoseAt(70, 75, 79) }

ICRChange(hour, currentICR, suggestedICR) ==
  [hour |-> hour, currentICR |-> currentICR, suggestedICR |-> suggestedICR]

CVICRInputs ==
  { ICRChange(h, 100, s) : h \in {3, 8, 15}, s \in {110, 105, 103, 100, 97, 80} }

InitCV ==
  /\ stage = "input"
  /\ treatments = <<>>
  /\ entries \in CVEntryInputs
  /\ basalAdj \in CVBasalInputs
  /\ cvIcr = <<>>
  /\ cvOut = NoValidation
  /\ basalProfile = <<>>
  /\ hourlyAvg = <<>>
  /\ basalExpanded = <<>>
  /\ basalChange = <<>>
  /\ ISFIdle
  /\ ICRIdle
  /\ PCDIdle
  /\ RunIdle
  /\ HooksIdle

AddICRAdjustment ==
  /\ stage = "input"
  /\ Len(cvIcr) < MaxICRAdjustments
  /\ \E icr \in CVICRInputs : cvIcr' = Append(cvIcr, icr)
  /\ UNCHANGED <<stage, treatments, isfVars, basalVars, icrVars, pcdVars, cvOut, runVars, hookVars>>

RunValidateProfileRecommendations ==
  /\ stage = "input"
  /\ cvOut' = validateProfileRecommendations(basalAdj, cvIcr, entries)
  /\ stage' = "done"
  /\ UNCHANGED <<treatments, isfVars, basalVars, icrVars, pcdVars, cvIcr, runVars, hookVars>>

NextCV == AddICRAdjustment \/ RunValidateProfileRecommendations

SpecCV == InitCV /\ [][NextCV]_vars

\* the readings of an hour lie above 140 on average
AverageAbove140(hour) ==
  LET S == { i \in 1..Len(entries) : HourOf(entries[i].t) = hour }
  IN  S # {} /\ SumOfValues(S) > 140 * Cardinality(S)

\* C10: whenever the average glucose of an ICR adjustment's hour is above
\* 140, the basal change of the hour below -5 % and the ICR change
\* (suggestedICR - currentICR) / currentICR * 100 above +5 %, the validator
\* emits a conflict for the hour with severity "high", also in the non-meal
\* hours whose conflicts can be reclassified.
C10_HighSeverityConflict ==
  stage = "done" =>
    \A k \in 1..Len(cvIcr) :
      LET icr == cvIcr[k]
          pct == (2 * 100 * (icr.suggestedICR - icr.currentICR) + icr.currentICR)
                   \div (2 * icr.currentICR)
      IN  (/\ AverageAbove140(icr.hour)
           /\ basalAdj[icr.hour + 1] < -5
           /\ 100 * (icr.suggestedICR - icr.currentICR) > 5 * icr.currentICR)
          => /\ \E j \in 1..Len(cvOut.conflicts) :
                  /\ cvOut.conflicts[j].hour = icr.hour
                  /\ cvOut.conflicts[j].icrChange = pct
                  /\ cvOut.conflicts[j].conflictSeverity = "high"
             /\ \A j \in 1..Len(cvOut.conflicts) :
                  (cvOut.conflicts[j].hour = icr.hour /\ cvOut.conflicts[j].icrChange = pct)
                  => cvOut.conflicts[j].conflictSeverity = "high"

\* glucose 160, basal -10 %, ICR +10 % at 08:00, and glucose 160, basal -20 %,
\* ICR +10 % in the non-meal hour 03:00
C10_Witness ==
  /\ stage = "done"
  /\ \E j \in 1..Len(cvOut.conflicts) :
       cvOut.conflicts[j] = [hour |-> 8, basalChange |-> -10, icrChange |-> 10,
                             avgGlucose |-> 160, conflictSeverity |-> "high",
                             recommendation |-> "high glucose, basal down and ICR up"]
  /\ \E j \in 1..Len(cvOut.conflicts) :
       /\ cvOut.conflicts[j].hour = 3
       /\ cvOut.conflicts[j].basalChange = -20
       /\ cvOut.conflicts[j].icrChange = 10
       /\ cvOut.conflicts[j].conflictSeverity = "high"

\* C18: overallCoherence = 1 - conflictCount / totalSlots, totalSlots being the
\* number of ICR adjustments checked; it lies in [0, 1], is 1 when there are
\* no ICR adjustments, and at most one conflict is recorded per adjustment.
C18_OverallCoherence ==
  stage = "done" =>
    LET n == Len(cvIcr)
        k == Len(cvOut.conflicts)
        c == cvOut.overallCoherence
    IN  /\ c[2] > 0
        /\ 0 <= c[1] /\ c[1] <= c[2]
        /\ n = 0 => c[1] = c[2]
        /\ n > 0 => c[1] * n = (n - k) * c[2]
        /\ k <= n
        /\ \A h \in Hours :
             Cardinality({ j \in 1..k : cvOut.conflicts[j].hour = h })
               <= Cardinality({ i \in 1..n : cvIcr[i].hour = h })

\* two ICR adjustments checked, one of them in conflict: coherence 1/2
C18_Witness ==
  /\ stage = "done"
  /\ Len(cvIcr) = 2
  /\ Len(cvOut.conflicts) = 1
  /\ cvOut.overallCoherence = Rat(1, 2)

\* the ICR change of an adjustment in percent, rounded as the validator
\* reports it
RoundedICRChange(icr) ==
  (2 * 100 * (icr.suggestedICR - icr.currentICR) + icr.currentICR) \div (2 * icr.currentICR)

\* C19: when |basalChange| > 15, |icrChange| < 5 and the hour lies in a
\* non-meal window (23..5 or 14..16), no conflict entry is added for the
\* hour and overallCoherence is not reduced by it.
C19_BenignChangeNotFlagged ==
  stage = "done" =>
    LET benign(icr) ==
          /\ Abs(basalAdj[icr.hour + 1]) > 15
          /\ 100 * Abs(icr.suggestedICR - icr.currentICR) < 5 * icr.currentICR
          /\ (icr.hour >= 23 \/ icr.hour <= 5 \/ (icr.hour >= 14 /\ icr.hour <= 16))
        flaggedOthers == Cardinality({ i \in 1..Len(cvIcr) : ~benign(cvIcr[i]) })
    IN  /\ \A i \in 1..Len(cvIcr) :
             benign(cvIcr[i]) =>
               \A j \in 1..Len(cvOut.conflicts) :
                 ~(/\ cvOut.conflicts[j].hour = cvIcr[i].hour
                   /\ cvOut.conflicts[j].icrChange = RoundedICRChange(cvIcr[i]))
        /\ Len(cvIcr) > 0 =>
             cvOut.overallCoherence[1] * Len(cvIcr)
               >= (Len(cvIcr) - flaggedOthers) * cvOut.overallCoherence[2]

\* the readings of an hour lie below 80 on average
AverageBelow80(hour) ==
  LET S == { i \in 1..Len(entries) : HourOf(entries[i].t) = hour }
  IN  S # {} /\ SumOfValues(S) < 80 * Cardinality(S)

\* C20: for every hour with average glucose > 140, basal change < 0 and ICR
\* change > 0, and for every hour with average glucose < 80, basal change > 0
\* and ICR change < 0, a conflict is emitted with severity "medium" or
\* "high", never "low" and never omitted.
C20_OppositeSignConflict ==
  stage = "done" =>
    \A i \in 1..Len(cvIcr) :
      LET icr == cvIcr[i]
          basal == basalAdj[icr.hour + 1]
          delta == icr.suggestedICR - icr.currentICR
          mine(j) == /\ cvOut.conflicts[j].hour = icr.hour
                     /\ cvOut.conflicts[j].icrChange = RoundedICRChange(icr)
      IN  (\/ (AverageAbove140(icr.hour) /\ basal < 0 /\ delta > 0)
           \/ (AverageBelow80(icr.hour) /\ basal > 0 /\ delta < 0))
          => /\ \E j \in 1..Len(cvOut.conflicts) : mine(j)
             /\ \A j \in 1..Len(cvOut.conflicts) :
                  mine(j) => cvOut.conflicts[j].conflictSeverity \in {"medium", "high"}

(***************************************************************************)
(* performAnalysis: the profile change detector, hourlyAverage and         *)
(* suggestBasalChanges on the caller's inputs.  A profile is Null when     *)
(* absent and [basal] otherwise; a slot's time is Null when the property   *)
(* is missing.  A run ends with a result or with a TypeError.              *)
(***************************************************************************)
\* parseInt of a text that does not start with a digit; it is === to no hour
NaN == -1

\* a time string whose hour part is not a number, such as "ab:cd"
UnparsableTime == Time(NaN, NaN)

Threw == [threw |-> TRUE]

\* basalProfile.find((b) => parseInt(b.time.split(":")[0]) === h), for any
\* hour h, reaches a slot without a time: b.time.split raises a TypeError
suggestBasalChangesThrows(slots) ==
  \E h \in Hours : \E k \in 1..Len(slots) :
    /\ slots[k].time = Null
    /\ \A j \in 1..(k - 1) : slots[j].time # Null /\ SlotHour(slots[j]) # h

DefaultDays == 7

performAnalysis(entriesIn, treatmentsIn, profileIn, history, now) ==
  LET dailyProfileChanges == detectChanges(history, DefaultDays, now)
      profileChangeAnalysis ==
        [hasChanges |-> Len(dailyProfileChanges) > 0, changes |-> dailyProfileChanges]
      avg == hourlyAverage(entriesIn)
  IN  IF profileIn = Null THEN Threw
      ELSE IF suggestBasalChangesThrows(profileIn.basal) THEN Threw
      ELSE [threw |-> FALSE,
            hourlyAvg |-> avg,
            basalChange |-> suggestBasalChanges(profileIn.basal, avg),
            basalStep |-> DefaultBasalStep,
            profileChangeAnalysis |-> profileChangeAnalysis]

MaxRunEntries == 2

TimelessSlot(v) == [time |-> Null, value |-> v]

RunProfiles ==
  { Null,
    [basal |-> <<>>],
    [basal |-> << Slot(0, 0, 500), Slot(6, 0, 850) >>],
    [basal |-> << Slot(0, 0, 500), TimelessSlot(850) >>],
    [basal |-> << Slot(0, 0, 500), [time |-> UnparsableTime, value |-> 850] >>] }

RunHistories ==
  { <<>>,
    << Snapshot(9, << Slot(0, 0, 500) >>, << Slot(0, 0, 100) >>, << Slot(0, 0, 500) >>),
       Snapshot(10, << Slot(0, 0, 550) >>, << Slot(0, 0, 100) >>, << Slot(0, 0, 500) >>) >> }

InitRun ==
  /\ stage = "input"
  /\ treatments \in InsulinInputs
  /\ entries = <<>>
  /\ profile \in RunProfiles
  /\ profileHistory \in RunHistories
  /\ analysisResult = Null
  /\ basalProfile = <<>>
  /\ hourlyAvg = <<>>
  /\ basalAdj = <<>>
  /\ basalExpanded = <<>>
  /\ basalChange = <<>>
  /\ pcdDays = DefaultDays
  /\ pcdOut = <<>>
  /\ ISFIdle
  /\ ICRIdle
  /\ CVIdle
  /\ HooksIdle

AddRunEntry ==
  /\ stage = "input"
  /\ Len(entries) < MaxRunEntries
  /\ \E e \in EntryInputs : entries' = Append(entries, e)
  /\ UNCHANGED <<stage, treatments, isfVars, basalProfile, hourlyAvg, basalAdj,
                 basalExpanded, basalChange, icrVars, pcdVars, cvVars, runVars, hookVars>>

RunPerformAnalysis ==
  /\ stage = "input"
  /\ analysisResult' = performAnalysis(entries, treatments, profile, profileHistory, PcdNow)
  /\ stage' = "done"
  /\ UNCHANGED <<treatments, isfVars, basalVars, icrVars, pcdVars, cvVars, profile,
                 hookVars>>

NextRun == AddRunEntry \/ RunPerformAnalysis

SpecRun == InitRun /\ [][NextRun]_vars

\* C12: performAnalysis never raises because an optional input is missing or
\* malformed: with an absent profile, an empty treatment list or a profile
\* slot whose time is missing or unparsable it returns a result.
C12_PerformAnalysisNeverThrows ==
  stage = "done" => ~analysisResult.threw

(***************************************************************************)
(* The analyzer hooks: overlapping analyzeAndBuild calls on the state of   *)
(* useFetchFromApi and useAnalysis.  A call runs from one await to the     *)
(* next in one step; its position is                                       *)
(*   "idle"      not started                                               *)
(*   "fetching"  suspended on fetchAllNightscoutData                       *)
(*   "fetched"   fetchFromApi has returned, analyzeAndBuild not resumed    *)
(*   "analysing" suspended on performAnalysis                              *)
(*   "done" / "failed"  settled                                            *)
(***************************************************************************)
InitHooks ==
  /\ stage = "input"
  /\ treatments = <<>>
  /\ ISFIdle
  /\ BasalIdle
  /\ ICRIdle
  /\ PCDIdle
  /\ CVIdle
  /\ RunIdle
  /\ HooksIdle

\* the hooks touch none of the analyzers' inputs and results
HookFrame ==
  UNCHANGED <<stage, treatments, isfVars, basalVars, icrVars, pcdVars, cvVars, runVars>>

\* analyzeAndBuild up to the await in fetchFromApi: setError(null),
\* setRunning(true), the configuration passes validateApiConfiguration
StartFetch(c) ==
  /\ callPc[c] = "idle"
  /\ fetchError' = NoError
  /\ running' = TRUE
  /\ callPc' = [callPc EXCEPT ![c] = "fetching"]
  /\ UNCHANGED <<analysisLoading, analysisError, hookResult, lastSettled>>
  /\ HookFrame

\* the same with an apiUrl that new URL() rejects: validateApiConfiguration
\* throws and the catch block runs before fetchFromApi returns
StartFetchInvalidUrl(c) ==
  /\ callPc[c] = "idle"
  /\ running' = FALSE
  /\ fetchError' = "API URL must be a valid URL"
  /\ callPc' = [callPc EXCEPT ![c] = "failed"]
  /\ lastSettled' = c
  /\ UNCHANGED <<analysisLoading, analysisError, hookResult>>
  /\ HookFrame

\* fetchAllNightscoutData resolves: setRunning(false); return result
FetchResolves(c) ==
  /\ callPc[c] = "fetching"
  /\ running' = FALSE
  /\ callPc' = [callPc EXCEPT ![c] = "fetched"]
  /\ UNCHANGED <<fetchError, analysisLoading, analysisError, hookResult, lastSettled>>
  /\ HookFrame

\* fetchAllNightscoutData rejects: the catch block of fetchFromApi
FetchRejects(c) ==
  /\ callPc[c] = "fetching"
  /\ running' = FALSE
  /\ fetchError' = "Data fetch failed"
  /\ callPc' = [callPc EXCEPT ![c] = "failed"]
  /\ lastSettled' = c
  /\ UNCHANGED <<analysisLoading, analysisError, hookResult>>
  /\ HookFrame

\* analyzeAndBuild resumes and format(fetchResult) throws (a profile without
\* store.Default): its catch block logs and rethrows
FormatThrows(c) ==
  /\ callPc[c] = "fetched"
  /\ callPc' = [callPc EXCEPT ![c] = "failed"]
  /\ lastSettled' = c
  /\ UNCHANGED <<running, fetchError, analysisLoading, analysisError, hookResult>>
  /\ HookFrame

\* analyzeAndBuild resumes and calls runAnalysis up to its await:
\* setAnalysisLoading(true), setAnalysisError(null), performAnalysis started
StartAnalysis(c) ==
  /\ callPc[c] = "fetched"
  /\ analysisLoading' = TRUE
  /\ analysisError' = NoError
  /\ callPc' = [callPc EXCEPT ![c] = "analysing"]
  /\ UNCHANGED <<running, fetchError, hookResult, lastSettled>>
  /\ HookFrame

\* performAnalysis resolves: setResult, then finally setAnalysisLoading(false)
AnalysisResolves(c) ==
  /\ callPc[c] = "analysing"
  /\ hookResult' = c
  /\ analysisLoading' = FALSE
  /\ callPc' = [callPc EXCEPT ![c] = "done"]
  /\ lastSettled' = c
  /\ UNCHANGED <<running, fetchError, analysisError>>
  /\ HookFrame

\* performAnalysis rejects: setAnalysisError, then finally
\* setAnalysisLoading(false)
AnalysisRejects(c) ==
  /\ callPc[c] = "analysing"
  /\ analysisError' = "Analysis failed"
  /\ analysisLoading' = FALSE
  /\ callPc' = [callPc EXCEPT ![c] = "failed"]
  /\ lastSettled' = c
  /\ UNCHANGED <<running, fetchError, hookResult>>
  /\ HookFrame

NextHooks ==
  \E c \in Calls :
    \/ StartFetch(c)
    \/ StartFetchInvalidUrl(c)
    \/ FetchResolves(c)
    \/ FetchRejects(c)
    \/ FormatThrows(c)
    \/ StartAnalysis(c)
    \/ AnalysisResolves(c)
    \/ AnalysisRejects(c)

SpecHooks == InitHooks /\ [][NextHooks]_vars

\* useNightscoutAnalyzer: isLoading and error as a render computes them
isLoading == running \/ analysisLoading

HookError == IF fetchError # NoError THEN fetchError ELSE analysisError

\* C30: while a call is suspended on its fetch or on its analysis, isLoading
\* is true, also when two calls overlap; once every started call has settled
\* isLoading is false, and if the call that settled last failed, error is
\* non-null and the result is not one the failed call wrote.
C30_LoadingCoversEveryCall ==
  /\ \A c \in Calls : callPc[c] \in {"fetching", "analysing"} => isLoading
  /\ (\A c \in Calls : callPc[c] \in {"idle", "done", "failed"}) =>
       /\ ~isLoading
       /\ (lastSettled # 0 /\ callPc[lastSettled] = "failed") =>
            /\ HookError # NoError
            /\ hookResult # lastSettled

====
